---- MODULE Spec2Model ----
(***************************************************************************)
(* Model of the corrosion kernel's storage stack: the page/byte allocator  *)
(* (src/src/alloc.rs), the virtio legacy block driver (src/src/block.rs)   *)
(* and the Minix v3 filesystem reader (src/src/minixfs3.rs).               *)
(*                                                                         *)
(* Addresses are byte offsets from BYTE_GRAIN_ALLOC.start, the address of  *)
(* page 0 of the page-grain heap; the byte pool is the first page run, so  *)
(* the pool head is address 0.  The null pointer is NullPtr.               *)
(***************************************************************************)
EXTENDS Integers, Sequences, FiniteSets, TLC

VARIABLES
    \* ---- allocator (alloc.rs)
    pages,      \* page record table, run-length encoded: <<[flags, count], ...>>
    mem,        \* 8-byte words of the byte pool that hold (or held) a header
    live,       \* ghost: byte-grain allocations handed out and not yet freed
    runs,       \* ghost: page runs handed out by alloc_pages
    lastOp,     \* ghost: what the last allocator call was and returned
    ops,        \* ghost: number of allocator calls made since init
    \* ---- block driver (block.rs) and its device
    bd,         \* BLOCK_DEVICE: Some or None, idx, ack_used_idx, read_only, ready flags
    desc,       \* queue.desc: slot -> descriptor (slots never written are zero)
    avail,      \* queue.avail: idx and ring
    used,       \* queue.used: idx and ring
    dev,        \* the device: handler running, avail entries consumed, requests held
    irq,        \* the device's interrupt line is pending at the PLIC
    mie,        \* machine interrupts are enabled (kernel_main) or not (kernel_init)
    pc,         \* the main line: idle, or its position inside block_operation
    disk,       \* the disk: sector -> content
    bufs,       \* the callers' buffers: address -> content, one entry per sector
    reqlog,     \* ghost: one record per submitted request, in submission order
    usedlog,    \* ghost: the request behind each used-ring entry, in ring order
    freelog,    \* ghost: every free_bytes call of use_queue
    rets,       \* ghost: one record per block read/write call that returned
    \* ---- filesystem (minixfs3.rs)
    fsimg,      \* the disk image the filesystem reads
    cache,      \* MFS_INODE_CACHE, and whether init ran
    fsret,      \* the last MinixFileSystem::read call and what it did
    fsc         \* the filesystem call under way and the buffers it holds

allocVars == <<pages, mem, live, runs, lastOp, ops>>
queueVars == <<bd, desc, avail, used>>
blockVars == <<bd, desc, avail, used, dev, irq, mie, pc, disk, bufs,
               reqlog, usedlog, freelog, rets>>

fsVars == <<fsimg, cache, fsret, fsc>>

vars == <<pages, mem, live, runs, lastOp, ops,
          bd, desc, avail, used, dev, irq, mie, pc, disk, bufs,
          reqlog, usedlog, freelog, rets, fsimg, cache, fsret, fsc>>

-----------------------------------------------------------------------------
(* Bounds of the model.                                                    *)

\* HEAP_SIZE / PAGE_SIZE: the heap size is a linker symbol (alloc.rs:14)
NumPages == 518
\* most byte-grain allocations the callers of the allocator hold at once
MaxLive == 3
\* most page runs requested after init
MaxRuns == 3
\* most allocator calls made after init
MaxOps == 5
\* most block read/write calls of a run with arbitrary interrupt timing
MaxCalls == 2
\* most requests the device holds unfinished at once
MaxDevPending == 2
\* reads of the stress loop: more than VIRTIO_RING_SIZE
StressCalls == 130
\* most block reads of one filesystem call, and most filesystem calls
MaxScratchReads == 2
MaxScratchCalls == 2
\* most request records of the filesystem's block reads not drained yet
MaxScratchPending == 1
\* most allocator calls of the callers before the filesystem's calls
MaxScratchOps == 2
\* reads made before interrupts are enabled: 43 requests take 129 descriptors
BacklogCalls == 43
\* calls of mixed reads and writes: the 43rd chain wraps around the ring
RingCalls == 44
\* the last of them, which are any of the callers' reads and writes
LastCalls == 3
\* deepest directory nesting the walk of the path cache follows
MaxDepth == 4
\* largest inode number of the disk images
MaxInode == 16

-----------------------------------------------------------------------------
(* Program constants.                                                      *)

PAGE_SIZE == 4096
PAGE_FLAG_EMPTY == 0
PAGE_FLAG_TAKEN == 1
PAGE_FLAG_LAST == 2
\* BYTE_GRAIN_ALLOC.alloc, the number of pages of the byte pool
PoolPages == 512
\* size_of::<ByteGrainFlags>(): one usize
HeaderSize == 8

\* null_mut(): address 0 of the machine, far below the pool start, so that the
\* field offsets added to it stay below the pool
NullPtr == 0 - 65536
PoolSize == PoolPages * PAGE_SIZE

\* request sizes the callers draw from: [1, pool_size - header]
AllocSizes == {1, 9, 32, PoolSize - HeaderSize}
\* page counts the callers draw from: none, some, and more than the heap has
PageCounts == {0, 1, 2, 5, NumPages + 1}

-----------------------------------------------------------------------------
(* memory.rs                                                               *)

Pow2(n) == 2 ^ n

align_val(val, order) ==
    LET o == Pow2(order) - 1
    IN  ((val + o) \div (o + 1)) * (o + 1)

-----------------------------------------------------------------------------
(* PageGrainFlags: a flag byte, bit 0 taken, bit 1 last.                   *)

page_is_taken(f) == (f % 2) = 1
page_is_last(f) == ((f \div 2) % 2) = 1
page_is_free(f) == ~page_is_taken(f)
page_set_flag(f, flag) ==
    IF flag = PAGE_FLAG_TAKEN
    THEN (IF page_is_taken(f) THEN f ELSE f + PAGE_FLAG_TAKEN)
    ELSE (IF page_is_last(f) THEN f ELSE f + PAGE_FLAG_LAST)

\* The page record table is an array of NumPages flag bytes; the state holds
\* it run-length encoded, and PageTable/PageRuns convert between the two.
RECURSIVE PageFlagAt(_, _)
PageFlagAt(rle, i) ==
    IF i < rle[1].count THEN rle[1].flags
    ELSE PageFlagAt(SubSeq(rle, 2, Len(rle)), i - rle[1].count)

PageTable(rle) == [i \in 0 .. NumPages - 1 |-> PageFlagAt(rle, i)]

RECURSIVE PageRunsFrom(_, _, _)
PageRunsFrom(pg, i, bounds) ==
    IF i >= NumPages THEN <<>>
    ELSE LET later == {b \in bounds : b > i}
             j == IF later = {} THEN NumPages
                  ELSE CHOOSE b \in later : \A c \in later : b <= c
         IN  <<[flags |-> pg[i], count |-> j - i]>> \o PageRunsFrom(pg, j, later)

PageRuns(pg) == PageRunsFrom(pg, 0, {j \in 1 .. NumPages - 1 : pg[j] # pg[j - 1]})

\* PageGrainAllocator::init
PageInit == [i \in 0 .. NumPages - 1 |-> PAGE_FLAG_EMPTY]

\* ptr.add(j): record j of the table, or for j past its end the byte of the
\* memory behind the table, which reads as `beyond`
PageAt(pg, j, beyond) == IF j \in DOMAIN pg THEN pg[j] ELSE beyond

\* the candidate test of PageGrainAllocator::alloc for start index i
PageRunFound(pg, i, n, beyond) ==
    /\ page_is_free(PageAt(pg, i, beyond))
    /\ \A j \in i .. i + n - 1 : ~page_is_taken(PageAt(pg, j, beyond))

\* the marking loop of PageGrainAllocator::alloc and the set_flag(LAST) behind
\* it; stores past the end of the table land outside the page records
PageMark(pg, i, n) ==
    [k \in DOMAIN pg |->
        LET f == IF k \in i .. i + n - 1 THEN page_set_flag(pg[k], PAGE_FLAG_TAKEN)
                 ELSE pg[k]
        IN  IF k = i + n - 1 THEN page_set_flag(f, PAGE_FLAG_LAST) ELSE f]

\* the scan of PageGrainAllocator::alloc over the start indexes 0 ..= top.
\* With top past the table (num_pages - pages wrapped around) a scan that
\* finds nothing up to index num_pages reads on behind the table until it
\* leaves mapped memory: fate "trap"
PageScan(pg, n, top, beyond) ==
    LET cands == {i \in 0 .. (IF top > NumPages THEN NumPages ELSE top) :
                     PageRunFound(pg, i, n, beyond)}
    IN  IF cands = {}
        THEN [pages |-> pg, ptr |-> NullPtr,
              fate |-> IF top > NumPages THEN "trap" ELSE "return"]
        ELSE LET i == CHOOSE c \in cands : \A d \in cands : c <= d
             IN  [pages |-> PageMark(pg, i, n), ptr |-> PAGE_SIZE * i, fate |-> "return"]

\* PageGrainAllocator::alloc, for 1 <= n <= num_pages: first fit over the
\* page records; the result is the run's base address, or null
PageAlloc(pg, n) == PageScan(pg, n, NumPages - n, PAGE_FLAG_EMPTY)

\* alloc without its assertion
PageAssertNone(n) == TRUE

\* assert!(pages > 0)
PageAssert(n) == n > 0

\* PageGrainAllocator::alloc for any n.  For n > num_pages the loop bound
\* num_pages - pages underflows: a build with overflow checks panics, a build
\* without them wraps the bound around and the scan reads behind the table;
\* a run it finds there is marked with stores behind the table: fate "stray"
PageGrainAlloc(pg, n, checked, beyond) ==
    IF ~PageAssert(n) THEN [pages |-> pg, ptr |-> NullPtr, fate |-> "panic"]
    ELSE IF n > NumPages
    THEN (IF checked THEN [pages |-> pg, ptr |-> NullPtr, fate |-> "panic"]
          ELSE LET r == PageScan(pg, n, NumPages + 1, beyond)
               IN  [r EXCEPT !.fate = IF r.ptr = NullPtr THEN "trap" ELSE "stray"])
    ELSE PageScan(pg, n, NumPages - n, beyond)

-----------------------------------------------------------------------------
(* ByteGrainFlags: one usize, bit 63 taken, the rest the chunk size.  A    *)
(* word is the record [size, taken].                                       *)

is_taken(w) == w.taken
is_free(w) == ~is_taken(w)
set_taken(w) == [w EXCEPT !.taken = TRUE]
set_free(w) == [w EXCEPT !.taken = FALSE]
set_size(w, sz) == [w EXCEPT !.size = sz]
get_size(w) == w.size

\* a store of word w at address a
Store(m, a, w) == [x \in DOMAIN m \cup {a} |-> IF x = a THEN w ELSE m[x]]

\* a load: a word never written reads as zero (the pool pages are zeroed)
Load(m, a) == IF a \in DOMAIN m THEN m[a] ELSE [size |-> 0, taken |-> FALSE]

\* the pool end: head + alloc * PAGE_SIZE
PoolTail == PoolSize

\* ByteGrainAllocator::init: the pool is one free chunk
ByteInit == Store(<<>>, 0, [size |-> PoolPages * PAGE_SIZE, taken |-> FALSE])

\* KmallocTake without the set_taken() call
KmallocTakeNoMark(m, head, size) ==
    LET chunk_size == get_size(Load(m, head))
        rem == chunk_size - size
    IN  IF rem > HeaderSize
        THEN LET next == head + size
                 m2 == Store(m, next, set_size(set_free(Load(m, next)), rem))
             IN  Store(m2, head, set_size(Load(m2, head), size))
        ELSE m

\* KmallocTake with the remainder's header left out of its size
KmallocTakeShortRem(m, head, size) ==
    LET chunk_size == get_size(Load(m, head))
        rem == chunk_size - size
        m1 == Store(m, head, set_taken(Load(m, head)))
    IN  IF rem > HeaderSize
        THEN LET next == head + size
                 m2 == Store(m1, next,
                             set_size(set_free(Load(m1, next)), rem - HeaderSize))
             IN  Store(m2, head, set_size(Load(m2, head), size))
        ELSE Store(m1, head, set_size(Load(m1, head), chunk_size))

\* the split of a fitting chunk in kmalloc
KmallocTake(m, head, size) ==
    LET chunk_size == get_size(Load(m, head))
        rem == chunk_size - size
        m1 == Store(m, head, set_taken(Load(m, head)))
    IN  IF rem > HeaderSize
        THEN LET next == head + size
                 m2 == Store(m1, next, set_size(set_free(Load(m1, next)), rem))
             IN  Store(m2, head, set_size(Load(m2, head), size))
        ELSE Store(m1, head, set_size(Load(m1, head), chunk_size))

\* the scan loop of kmalloc from chunk `head`; a chunk of size 0 would spin
\* the loop forever and is reported as Hang
RECURSIVE KmallocScan(_, _, _)
KmallocScan(m, head, size) ==
    IF head >= PoolTail
    THEN [mem |-> m, ptr |-> NullPtr, hang |-> FALSE]
    ELSE IF is_free(Load(m, head)) /\ size <= get_size(Load(m, head))
    THEN [mem |-> KmallocTake(m, head, size), ptr |-> head + HeaderSize, hang |-> FALSE]
    ELSE IF get_size(Load(m, head)) = 0
    THEN [mem |-> m, ptr |-> NullPtr, hang |-> TRUE]
    ELSE KmallocScan(m, head + get_size(Load(m, head)), size)

\* kmalloc without the rounding of the size
KmallocNoRound(m, sz) == KmallocScan(m, 0, sz + HeaderSize)

\* ByteGrainAllocator::kmalloc
Kmalloc(m, sz) == KmallocScan(m, 0, align_val(sz, 3) + HeaderSize)

\* the scan loop of kmalloc up to `let chunk_size = (*head).get_size()`: the
\* chunk it settles on and the size it read there, before any store
RECURSIVE KmallocFind(_, _, _)
KmallocFind(m, head, size) ==
    IF head >= PoolTail
    THEN [found |-> FALSE, head |-> NullPtr, chunk_size |-> 0, hang |-> FALSE]
    ELSE IF is_free(Load(m, head)) /\ size <= get_size(Load(m, head))
    THEN [found |-> TRUE, head |-> head, chunk_size |-> get_size(Load(m, head)),
          hang |-> FALSE]
    ELSE IF get_size(Load(m, head)) = 0
    THEN [found |-> FALSE, head |-> NullPtr, chunk_size |-> 0, hang |-> TRUE]
    ELSE KmallocFind(m, head + get_size(Load(m, head)), size)

\* the stores of kmalloc behind that read, made with the chunk_size read then
\* into the memory as it is now
KmallocTakeRead(m, head, size, chunk_size) ==
    LET rem == chunk_size - size
        m1 == Store(m, head, set_taken(Load(m, head)))
    IN  IF rem > HeaderSize
        THEN LET next == head + size
                 m2 == Store(m1, next, set_size(set_free(Load(m1, next)), rem))
             IN  Store(m2, head, set_size(Load(m2, head), size))
        ELSE Store(m1, head, set_size(Load(m1, head), chunk_size))

\* the loop of ByteGrainAllocator::coalesce from chunk `head`
RECURSIVE CoalesceScan(_, _)
CoalesceScan(m, head) ==
    IF head >= PoolTail THEN m
    ELSE LET next == head + get_size(Load(m, head))
         IN  IF get_size(Load(m, head)) = 0 \/ next >= PoolTail
             THEN m
             ELSE LET m1 == IF is_free(Load(m, head)) /\ is_free(Load(m, next))
                            THEN Store(m, head,
                                       set_size(Load(m, head),
                                                get_size(Load(m, head)) + get_size(Load(m, next))))
                            ELSE m
                  IN  CoalesceScan(m1, head + get_size(Load(m1, head)))

\* ByteGrainAllocator::coalesce
Coalesce(m) == CoalesceScan(m, 0)

\* ByteGrainAllocator::kfree
Kfree(m, ptr) ==
    IF ptr = NullPtr THEN m
    ELSE LET p == ptr - HeaderSize
             m1 == IF is_taken(Load(m, p)) THEN Store(m, p, set_free(Load(m, p))) ELSE m
         IN  Coalesce(m1)

\* ByteGrainAllocator::kzmalloc: kmalloc of the rounded size, then the bytes
\* of the allocation are zeroed, and with them the words among them that held
\* a header before
Kzmalloc(m, sz) ==
    LET size == align_val(sz, 3)
        r == Kmalloc(m, size)
    IN  IF r.ptr = NullPtr THEN r
        ELSE [r EXCEPT !.mem =
                 [a \in DOMAIN r.mem |->
                     IF a >= r.ptr /\ a < r.ptr + size
                     THEN [size |-> 0, taken |-> FALSE]
                     ELSE r.mem[a]]]

\* the chunk list as the allocator walks it: the header addresses from the
\* pool head to the pool end
RECURSIVE ChunkWalk(_, _)
ChunkWalk(m, head) ==
    IF head >= PoolTail \/ get_size(Load(m, head)) = 0 THEN <<>>
    ELSE <<head>> \o ChunkWalk(m, head + get_size(Load(m, head)))

Chunks(m) == ChunkWalk(m, 0)

\* alloc::init(): PageGrainAllocator::init then ByteGrainAllocator::init,
\* whose alloc_pages_zeroed(512) takes pages 0..511 for the pool
InitPages == PageRuns(PageAlloc(PageInit, PoolPages).pages)
InitMem == ByteInit

-----------------------------------------------------------------------------
(* The block driver (block.rs): constants and the queue operations.        *)

VIRTIO_DESC_FLAG_NEXT == 1
VIRTIO_DESC_FLAG_WRITE == 2
VIRTIO_BLK_TYPE_IN == 0
VIRTIO_BLK_TYPE_OUT == 1
VIRTIO_RING_SIZE == 128
\* size_of::<Request>(): header 16, data 8, status 1, head 2, watcher 2, padded
RequestSize == 32
\* size_of::<Header>()
HeaderLen == 16
\* offsets of the fields of Request
OffSector == 8
OffData == 16
OffStatus == 24
\* the status byte block_header stores
StatusPending == 111
SectorSize == 512
\* u16 arithmetic of avail.idx, used.idx and ack_used_idx
U16 == 65536
\* config::WAIT_FOR_READY, the spin budget of block_operation
WAIT_FOR_READY == 2

\* a descriptor flag test: flags & f != 0, f a single bit
HasFlag(flags, f) == (flags \div f) % 2 = 1

\* a word of plain data as the allocator would read it: bit 63 clear
Word(v) == [size |-> v, taken |-> FALSE]

\* a store of the byte v at the (word aligned) address a
StoreByte(m, a, v) == Store(m, a, [Load(m, a) EXCEPT !.size = (@ \div 256) * 256 + v])

ZeroDesc == [addr |-> NullPtr, len |-> 0, flags |-> 0, next |-> 0]

\* queue.desc[i]; the queue pages are zeroed, so a slot never written is zero
DescAt(q, i) == IF i \in DOMAIN q THEN q[i] ELSE ZeroDesc

DescStore(q, i, d) == [x \in DOMAIN q \cup {i} |-> IF x = i THEN d ELSE q[x]]

RingAt(r, i) == IF i \in DOMAIN r THEN r[i] ELSE 0
UsedAt(r, i) == IF i \in DOMAIN r THEN r[i] ELSE [id |-> 0, len |-> 0]
RingStore(r, i, v) == [x \in DOMAIN r \cup {i} |-> IF x = i THEN v ELSE r[x]]

\* fill_next_descriptor with the `next` link not reduced modulo the ring size
fill_next_descriptor_NextNoWrap(b, q, d) ==
    LET idx == (b.idx + 1) % VIRTIO_RING_SIZE
        d1 == IF HasFlag(d.flags, VIRTIO_DESC_FLAG_NEXT)
              THEN [d EXCEPT !.next = idx + 1]
              ELSE d
    IN  [bd |-> [b EXCEPT !.idx = idx], desc |-> DescStore(q, idx, d1), idx |-> idx]

\* BlockDevice::fill_next_descriptor
fill_next_descriptor(b, q, d) ==
    LET idx == (b.idx + 1) % VIRTIO_RING_SIZE
        d1 == IF HasFlag(d.flags, VIRTIO_DESC_FLAG_NEXT)
              THEN [d EXCEPT !.next = (idx + 1) % VIRTIO_RING_SIZE]
              ELSE d
    IN  [bd |-> [b EXCEPT !.idx = idx], desc |-> DescStore(q, idx, d1), idx |-> idx]

\* the descriptor block_header builds
HeaderDesc(req) ==
    [addr |-> req, len |-> HeaderLen, flags |-> VIRTIO_DESC_FLAG_NEXT, next |-> 0]

\* the fields block_header stores into the request record
HeaderFields(m, req, buffer, offset, write) ==
    LET m1 == Store(m, req + OffSector, Word(offset \div SectorSize))
        m2 == Store(m1, req, Word(IF write THEN VIRTIO_BLK_TYPE_OUT ELSE VIRTIO_BLK_TYPE_IN))
        m3 == Store(m2, req + OffData, Word(buffer))
    IN  StoreByte(m3, req + OffStatus, StatusPending)

\* the descriptor block_data builds, with the device-writes flag left out
DataDescNoWrite(buffer, size, write) ==
    [addr |-> buffer, len |-> size, flags |-> VIRTIO_DESC_FLAG_NEXT, next |-> 0]

\* the descriptor block_data builds
DataDesc(buffer, size, write) ==
    [addr |-> buffer, len |-> size,
     flags |-> VIRTIO_DESC_FLAG_NEXT + (IF ~write THEN VIRTIO_DESC_FLAG_WRITE ELSE 0),
     next |-> 0]

\* the descriptor block_status builds
StatusDesc(req) ==
    [addr |-> req + OffStatus, len |-> 1, flags |-> VIRTIO_DESC_FLAG_WRITE, next |-> 0]

\* the loop condition of block_operation without the budget test
SpinAgainNoBudget(b, slot, counter) == slot \in b.notReady

\* the loop condition of block_operation's spin
SpinAgain(b, slot, counter) == counter < WAIT_FOR_READY /\ slot \in b.notReady

\* the loop of use_queue from the acknowledged index on; log collects one
\* record per free_bytes call: the address handed to it and whether the word
\* in front of it was the header of a taken chunk
RECURSIVE UseQueueLoop(_, _, _, _, _)
UseQueueLoop(b, q, u, m, log) ==
    IF b.ack_used_idx = u.idx
    THEN [bd |-> b, mem |-> m, log |-> log]
    ELSE LET idx == b.ack_used_idx % VIRTIO_RING_SIZE
             elem == UsedAt(u.ring, idx)
             b1 == [b EXCEPT !.ack_used_idx = (@ + 1) % U16,
                             !.notReady = @ \ {idx}]
             rq == DescAt(q, elem.id).addr
             took == rq # NullPtr /\ is_taken(Load(m, rq - HeaderSize))
             m1 == Kfree(m, rq)
             log1 == Append(log, [pos |-> b.ack_used_idx, id |-> elem.id,
                                  ptr |-> rq, took |-> took])
         \* free_bytes has stored before the next entry is read: the test
         \* makes the evaluation of the memory strict, entry by entry
         IN  IF m1 = m THEN UseQueueLoop(b1, q, u, m, log1)
             ELSE UseQueueLoop(b1, q, u, m1, log1)

\* BlockDevice::use_queue
use_queue(b, q, u, m) == UseQueueLoop(b, q, u, m, <<>>)

\* the disk's content of n sectors from `sector` on
DiskRead(d, sector, n) == [i \in 1 .. n |-> d[sector + i - 1]]

\* the disk after n sectors of data are stored from `sector` on
DiskWrite(d, sector, data) ==
    [s \in DOMAIN d |->
        IF s >= sector /\ s < sector + Len(data) THEN data[s - sector + 1] ELSE d[s]]

\* the device's reading of the chain at `head`: the header it points to and
\* the data and status descriptors linked from it
DevParse(q, m, head, k) ==
    LET d1 == DescAt(q, head)
        d2 == DescAt(q, d1.next)
        d3 == DescAt(q, d2.next)
    IN  [id |-> head, k |-> k,
         type |-> Load(m, d1.addr).size,
         sector |-> Load(m, d1.addr + OffSector).size,
         addr |-> d2.addr, len |-> d2.len,
         dwrite |-> HasFlag(d2.flags, VIRTIO_DESC_FLAG_WRITE),
         staddr |-> d3.addr]

\* the main line outside every driver call; ro and status_bits are the locals
\* of BlockDevice::init, chunk_size the local of kmalloc
PcIdle ==
    [step |-> "idle", write |-> FALSE, buf |-> 0, size |-> 0, offset |-> 0,
     req |-> 0, head |-> 0, slot |-> 0, counter |-> 0, ro |-> FALSE, status_bits |-> 0,
     chunk_size |-> 0]

\* BlockDevice::init_bd and the zeroed queue pages of init_pfn
QueueInit(ro) ==
    /\ bd = [installed |-> TRUE, idx |-> 0, ack_used_idx |-> 0, read_only |-> ro,
             notReady |-> {}]
    /\ desc = <<>>
    /\ avail = [idx |-> 0, ring |-> <<>>]
    /\ used = [idx |-> 0, ring |-> <<>>]

STATUS_FIELD_ACKNOWLEDGE == 1
STATUS_FIELD_DRIVER_OK == 4
STATUS_FIELD_FEATURES_OK == 8
STATUS_FIELD_FAILED == 128
VIRTIO_FEATURE_RO == 32

\* a | bit, bit a single bit
BitOr(a, bit) == IF HasFlag(a, bit) THEN a ELSE a + bit

\* ptr.add(reg).write_volatile(val)
MmioWrite(regs, reg, val) == Append(regs, [reg |-> reg, val |-> val])

\* BlockDevice::init_status: the register writes and the status bits returned
init_status(regs) ==
    LET r0 == MmioWrite(regs, "STATUS", 0)
        r1 == MmioWrite(r0, "STATUS", STATUS_FIELD_ACKNOWLEDGE)
        status_bits == BitOr(STATUS_FIELD_ACKNOWLEDGE, STATUS_FIELD_DRIVER_OK)
    IN  [regs |-> MmioWrite(r1, "STATUS", status_bits), status_bits |-> status_bits]

\* BlockDevice::init_guest_features, host_features read from the device
init_guest_features(regs, host_features) ==
    LET ro == HasFlag(host_features, VIRTIO_FEATURE_RO)
    IN  [regs |-> MmioWrite(regs, "GUEST_FEATURES",
                            IF ro THEN host_features - VIRTIO_FEATURE_RO
                            ELSE host_features),
         ro |-> ro]

\* init_status_check without its test of the status read back
init_status_check_pass(regs, status_bits, status_ok) ==
    [pass |-> TRUE, status_bits |-> BitOr(status_bits, STATUS_FIELD_FEATURES_OK),
     regs |-> MmioWrite(regs, "STATUS", BitOr(status_bits, STATUS_FIELD_FEATURES_OK))]

\* BlockDevice::init_status_check, status_ok read back from the device
init_status_check(regs, status_bits, status_ok) ==
    LET sb_out == BitOr(status_bits, STATUS_FIELD_FEATURES_OK)
        r1 == MmioWrite(regs, "STATUS", sb_out)
    IN  IF ~HasFlag(status_ok, STATUS_FIELD_FEATURES_OK)
        THEN [pass |-> FALSE, status_bits |-> 0,
              regs |-> MmioWrite(r1, "STATUS", STATUS_FIELD_FAILED)]
        ELSE [pass |-> TRUE, status_bits |-> sb_out, regs |-> r1]

\* BlockDevice::init_queue_check, qnmax read from the device
init_queue_check(regs, qnmax) ==
    IF VIRTIO_RING_SIZE > qnmax
    THEN [pass |-> FALSE, regs |-> regs]
    ELSE [pass |-> TRUE,
          regs |-> MmioWrite(MmioWrite(regs, "QUEUE_NUMBER", VIRTIO_RING_SIZE),
                             "QUEUE_SELECT", 0)]

\* BlockDevice::init_pfn behind its alloc_pages_zeroed, queue_ptr the result
init_pfn(regs, queue_ptr) ==
    MmioWrite(MmioWrite(regs, "GUEST_PAGE_SIZE", PAGE_SIZE),
              "QUEUE_PFN", queue_ptr \div PAGE_SIZE)

\* BlockDevice::init_notify
init_notify(regs, status_bits) ==
    MmioWrite(regs, "STATUS", BitOr(status_bits, STATUS_FIELD_DRIVER_OK))

\* the values the driver's writes left in the device's register `reg`
RegWrites(regs, reg) == SelectSeq(regs, LAMBDA w : w.reg = reg)

\* the device before the driver has touched it: regs collects the driver's
\* writes to the device's registers
DevReset == [running |-> FALSE, last_avail |-> 0, pending |-> {}, regs |-> <<>>,
             host_features |-> 0, features_ok |-> TRUE, queue_max |-> VIRTIO_RING_SIZE]

\* static mut BLOCK_DEVICE: Option<BlockDevice> = None, no queue allocated
BdNone == [installed |-> FALSE, idx |-> 0, ack_used_idx |-> 0, read_only |-> FALSE,
           notReady |-> {}]

QueueNone ==
    /\ bd = BdNone
    /\ desc = <<>>
    /\ avail = [idx |-> 0, ring |-> <<>>]
    /\ used = [idx |-> 0, ring |-> <<>>]

\* the rest of the block state before the first call
BlockIdle(ie) ==
    /\ irq = FALSE
    /\ mie = ie
    /\ pc = PcIdle
    /\ reqlog = <<>>
    /\ usedlog = <<>>
    /\ freelog = <<>>
    /\ rets = <<>>

-----------------------------------------------------------------------------
(* The Minix 3 filesystem reader (minixfs3.rs).                            *)
(* A disk image is a record: inodes (inode number -> inode), ptrs (zone of *)
(* an index block -> its non-zero entries in index order) and dirs (zone   *)
(* of a directory block -> its entries).  The byte at offset j of data     *)
(* zone z is the pair <<z, j>>; block::read is taken to deliver the block. *)

ROOT_NODE == 1
DIR_ENTRY_START == 2
BLOCK_SIZE == 1024
PTR_INDEX_MAX == BLOCK_SIZE \div 4
S_IFDIR == 16384
DIRECT_ZONES == 7
INDIRECT_ZONE == 7
DOUBLE_INDIRECT_ZONE == 8
TRIPLE_INDIRECT_ZONE == 9
\* size_of::<DirEntry>()
DirEntrySize == 64

\* memory::memcpy: the number of leading bytes of `bytes` it copies, whole
\* words first and then the bytes of the range bytes_completed..bytes_remaining
MemcpyLen(bytes) ==
    LET bytes_as_8 == bytes \div 8
        bytes_completed == bytes_as_8 * 8
        bytes_remaining == bytes - bytes_completed
    IN  bytes_completed
        + (IF bytes_completed < bytes_remaining THEN bytes_remaining - bytes_completed ELSE 0)

\* ReadState::new; segs collects the memcpy calls into the caller's buffer,
\* reads the zones handed to block::read, trail the same block reads with the
\* bytes_left of the moment and the zone walk that issued them (walk 1 to 4),
\* counted the zones seen_block was called for
ReadStateNew(inode_size, size, offset) ==
    [offset_byte |-> offset % BLOCK_SIZE,
     bytes_read |-> 0,
     bytes_left |-> IF size > inode_size THEN inode_size ELSE size,
     blocks_seen |-> 0,
     offset_block |-> offset \div BLOCK_SIZE,
     segs |-> <<>>,
     reads |-> <<>>,
     trail |-> <<>>,
     counted |-> <<>>,
     walk |-> 0]

\* ReadState::seen_block
seen_block(rs) == [rs EXCEPT !.blocks_seen = @ + 1]

\* ReadState::in_window
in_window(rs) == rs.offset_block <= rs.blocks_seen

\* read_data and ReadState::next, after the block of `zone` was read into
\* the direct buffer
read_data(rs, zone) ==
    LET bytes_to_read == IF BLOCK_SIZE - rs.offset_byte > rs.bytes_left
                         THEN rs.bytes_left
                         ELSE BLOCK_SIZE - rs.offset_byte
    IN  [rs EXCEPT !.segs = Append(@, [dst |-> rs.bytes_read, zone |-> zone,
                                       off |-> rs.offset_byte,
                                       len |-> MemcpyLen(bytes_to_read)]),
                   !.offset_byte = 0,
                   !.bytes_read = @ + bytes_to_read,
                   !.bytes_left = @ - bytes_to_read]

\* read_direct_data / read_indirect_data: block::read of the zone, read_data
read_block_data(rs, zone) ==
    read_data([rs EXCEPT !.reads = Append(@, zone),
                         !.trail = Append(@, [zone |-> zone, left |-> rs.bytes_left,
                                              walk |-> rs.walk, data |-> TRUE])],
              zone)

\* read_zone / read_izone: block::read of an index block
read_zone(rs, zone) ==
    [rs EXCEPT !.reads = Append(@, zone),
               !.trail = Append(@, [zone |-> zone, left |-> rs.bytes_left,
                                    walk |-> rs.walk, data |-> FALSE])]

\* the test of a zone pointer with every pointer taken for present
zone_present_any(z) == TRUE

\* inode.zones[i] == 0 { continue } of direct_zones; izone_present,
\* iizone_present and iiizone_present of the index blocks
zone_present(z) == z # 0

\* the entries of the index block in `zone` that the image lists, in index
\* order; every entry it does not list is zero
PtrEntries(img, zone) == IF zone \in DOMAIN img.ptrs THEN img.ptrs[zone] ELSE <<>>

\* the innermost loop of the four zone walks over the data zone pointers zs:
\* ret tells that the walk returned rs.bytes_read from inside
RECURSIVE ScanData(_, _)
ScanData(zs, rs) ==
    IF zs = <<>> THEN [rs |-> rs, ret |-> FALSE]
    ELSE IF ~zone_present(Head(zs)) THEN ScanData(Tail(zs), rs)
    ELSE IF in_window(rs)
         THEN LET rs1 == read_block_data(rs, Head(zs))
              IN  IF rs1.bytes_left = 0
                  THEN [rs |-> rs1, ret |-> TRUE]
                  ELSE ScanData(Tail(zs),
                                seen_block([rs1 EXCEPT !.counted = Append(@, Head(zs))]))
         ELSE ScanData(Tail(zs), seen_block([rs EXCEPT !.counted = Append(@, Head(zs))]))

\* the loops of double_indirect_zones (depth 1) and triple_indirect_zones
\* (depth 2) over the entries es of an index block
RECURSIVE ScanIndex(_, _, _, _)
ScanIndex(img, depth, es, rs) ==
    IF es = <<>> THEN [rs |-> rs, ret |-> FALSE]
    ELSE IF ~zone_present(Head(es).z) THEN ScanIndex(img, depth, Tail(es), rs)
    ELSE LET rs1 == read_zone(rs, Head(es).z)
             sub == PtrEntries(img, Head(es).z)
             r == IF depth = 1
                  THEN ScanData([i \in 1 .. Len(sub) |-> sub[i].z], rs1)
                  ELSE ScanIndex(img, depth - 1, sub, rs1)
         IN  IF r.ret THEN r ELSE ScanIndex(img, depth, Tail(es), r.rs)

\* the value a zone walk returns: rs.bytes_read from inside the loop, else 0
WalkResult(r) == [rs |-> r.rs, br |-> IF r.ret THEN r.rs.bytes_read ELSE 0]

\* direct_zones
direct_zones(img, inode, rs) ==
    WalkResult(ScanData(SubSeq(inode.zones, 1, DIRECT_ZONES), [rs EXCEPT !.walk = 1]))

\* indirect_zones
indirect_zones(img, inode, rs) ==
    LET root == inode.zones[INDIRECT_ZONE + 1]
        es == PtrEntries(img, root)
    IN  IF zone_present(root)
        THEN WalkResult(ScanData([i \in 1 .. Len(es) |-> es[i].z],
                                 read_zone([rs EXCEPT !.walk = 2], root)))
        ELSE [rs |-> rs, br |-> 0]

\* double_indirect_zones
double_indirect_zones(img, inode, rs) ==
    LET root == inode.zones[DOUBLE_INDIRECT_ZONE + 1]
    IN  IF zone_present(root)
        THEN WalkResult(ScanIndex(img, 1, PtrEntries(img, root),
                                  read_zone([rs EXCEPT !.walk = 3], root)))
        ELSE [rs |-> rs, br |-> 0]

\* triple_indirect_zones
triple_indirect_zones(img, inode, rs) ==
    LET root == inode.zones[TRIPLE_INDIRECT_ZONE + 1]
    IN  IF zone_present(root)
        THEN WalkResult(ScanIndex(img, 2, PtrEntries(img, root),
                                  read_zone([rs EXCEPT !.walk = 4], root)))
        ELSE [rs |-> rs, br |-> 0]

\* MinixFileSystem::read: the value returned and the final ReadState
Read(img, inode, size, offset) ==
    LET r1 == direct_zones(img, inode, ReadStateNew(inode.size, size, offset))
        r2 == indirect_zones(img, inode, r1.rs)
        r3 == double_indirect_zones(img, inode, r2.rs)
        r4 == triple_indirect_zones(img, inode, r3.rs)
    IN  IF r1.br # 0 THEN [ret |-> r1.br, rs |-> r1.rs]
        ELSE IF r2.br # 0 THEN [ret |-> r2.br, rs |-> r2.rs]
        ELSE IF r3.br # 0 THEN [ret |-> r3.br, rs |-> r3.rs]
        ELSE IF r4.br # 0 THEN [ret |-> r4.br, rs |-> r4.rs]
        ELSE [ret |-> r4.rs.bytes_read, rs |-> r4.rs]

\* the byte the memcpy calls segs left at position q of the caller's buffer
\* (<<z, j>>: byte j of zone z), or Stale when none of them wrote it
Stale == <<0 - 1, 0>>
RECURSIVE BufByteFrom(_, _, _)
BufByteFrom(segs, q, i) ==
    IF i = 0 THEN Stale
    ELSE IF segs[i].dst <= q /\ q < segs[i].dst + segs[i].len
         THEN <<segs[i].zone, segs[i].off + q - segs[i].dst>>
         ELSE BufByteFrom(segs, q, i - 1)
BufByte(segs, q) == BufByteFrom(segs, q, Len(segs))

\* entry i of the index block in `zone`, 0 when the entry or the block is absent
PtrAt(img, zone, i) ==
    LET es == PtrEntries(img, zone)
        hit == {k \in 1 .. Len(es) : es[k].i = i}
    IN  IF hit = {} THEN 0 ELSE es[CHOOSE k \in hit : TRUE].z

\* the reference flat file: the zone of logical block b, 0 for a hole
LogicalZone(img, inode, b) ==
    LET b1 == b - DIRECT_ZONES
        b2 == b1 - PTR_INDEX_MAX
        b3 == b2 - PTR_INDEX_MAX * PTR_INDEX_MAX
    IN  IF b < DIRECT_ZONES THEN inode.zones[b + 1]
        ELSE IF b1 < PTR_INDEX_MAX THEN PtrAt(img, inode.zones[INDIRECT_ZONE + 1], b1)
        ELSE IF b2 < PTR_INDEX_MAX * PTR_INDEX_MAX
        THEN PtrAt(img, PtrAt(img, inode.zones[DOUBLE_INDIRECT_ZONE + 1],
                              b2 \div PTR_INDEX_MAX), b2 % PTR_INDEX_MAX)
        ELSE PtrAt(img, PtrAt(img, PtrAt(img, inode.zones[TRIPLE_INDIRECT_ZONE + 1],
                                         b3 \div (PTR_INDEX_MAX * PTR_INDEX_MAX)),
                              (b3 \div PTR_INDEX_MAX) % PTR_INDEX_MAX),
                   b3 % PTR_INDEX_MAX)

\* the reference flat file: its byte at position p, a zero byte inside a hole
ZeroByte == <<0, 0>>
FlatByte(img, inode, p) ==
    LET z == LogicalZone(img, inode, p \div BLOCK_SIZE)
    IN  IF z = 0 THEN ZeroByte ELSE <<z, p % BLOCK_SIZE>>

\* the reference flat file: the number of bytes it holds from offset on, cut
\* to the requested size
FlatCount(inode, size, offset) ==
    IF offset >= inode.size THEN 0
    ELSE IF size > inode.size - offset THEN inode.size - offset ELSE size

\* Inode::is_directory
is_directory(inode) == HasFlag(inode.mode, S_IFDIR)

\* Inode::get_dirents: the read of the first BLOCK_SIZE bytes of the
\* directory and the number of entries in what read reports
MAGIC == 19802
\* size_of::<Inode>()
InodeSize == 64
\* BLOCK_SIZE as usize / size_of::<Inode>()
InodesPerBlock == BLOCK_SIZE \div InodeSize

\* SuperBlock::is_minixfs with any magic taken for Minix
is_minixfs_any(sb) == TRUE

\* SuperBlock::is_minixfs
is_minixfs(sb) == sb.magic = MAGIC

\* SuperBlock::blocks_first_four_areas
blocks_first_four_areas(sb) == 2 + sb.imap_blocks + sb.zmap_blocks

\* SuperBlock::inode_offset_and_index for inode_num >= 1
inode_offset_and_index(sb, inode_num) ==
    [offset |-> blocks_first_four_areas(sb) * BLOCK_SIZE
                + ((inode_num - 1) \div InodesPerBlock) * BLOCK_SIZE,
     index |-> (inode_num - 1) % InodesPerBlock]

\* the same for inode_num = 0 in a build without overflow checks:
\* inode_num as usize - 1 wraps to 2^64 - 1, whose quotient by 16 is 2^60 - 1
\* and whose remainder is 15; (2^60 - 1) * 1024 wraps to 2^64 - 1024, and the
\* sum with the table's offset wraps once more, to one block below the table
inode_offset_and_index_wrapped(sb) ==
    [offset |-> (blocks_first_four_areas(sb) - 1) * BLOCK_SIZE,
     index |-> InodesPerBlock - 1]

\* *(inode_ptr.add(index)) of the block read from byte `offset` of the disk:
\* the inode whose slot of the inode table that is, if the table has it
InodeSlot(img, offset, index) ==
    (offset \div BLOCK_SIZE - blocks_first_four_areas(img.sb)) * InodesPerBlock + index + 1

\* SuperBlock::get_inode on the cached superblock sb; `checked` is the build
\* with overflow checks.  fate: "none" for None, "panic" for the overflow
\* panic, "some" for Some(record); read: the inode-table block was read;
\* present: the record is an inode of the image and not other bytes
get_inode(img, sb, inode_num, checked) ==
    IF ~is_minixfs(sb)
    THEN [n |-> inode_num, fate |-> "none", read |-> FALSE, wrapped |-> FALSE,
          offset |-> 0, index |-> 0, present |-> FALSE]
    ELSE IF inode_num = 0 /\ checked
    THEN [n |-> inode_num, fate |-> "panic", read |-> FALSE, wrapped |-> FALSE,
          offset |-> 0, index |-> 0, present |-> FALSE]
    ELSE LET oi == IF inode_num = 0 THEN inode_offset_and_index_wrapped(sb)
                   ELSE inode_offset_and_index(sb, inode_num)
         IN  [n |-> inode_num, fate |-> "some", read |-> TRUE,
              wrapped |-> inode_num = 0,
              offset |-> oi.offset, index |-> oi.index,
              present |-> /\ oi.offset \div BLOCK_SIZE >= blocks_first_four_areas(img.sb)
                          /\ InodeSlot(img, oi.offset, oi.index) \in DOMAIN img.inodes]

\* the record get_inode returned
GotInode(img, g) == img.inodes[InodeSlot(img, g.offset, g.index)]

get_dirents(img, inode) ==
    LET r == Read(img, inode, BLOCK_SIZE, 0)
    IN  [segs |-> r.rs.segs, num |-> r.ret \div DirEntrySize]

\* the entry at dirents.add(i) of the buffer get_dirents filled
DirEntryAt(img, segs, i) ==
    LET b == BufByte(segs, i * DirEntrySize)
        k == b[2] \div DirEntrySize + 1
    IN  IF b[1] \in DOMAIN img.dirs /\ k <= Len(img.dirs[b[1]])
        THEN img.dirs[b[1]][k]
        ELSE [inode |-> 0, name |-> ""]

\* DirEntry::abs_name
abs_name(cwd, inode_num, name) ==
    cwd \o (IF inode_num # 1 THEN "/" ELSE "") \o name

\* BTreeMap::insert
BtmInsert(map, path, node) ==
    {x \in map : x.path # path} \cup {[path |-> path, node |-> node]}

\* cache_tree and its loop over the entries.  get_dirents hands back a
\* pointer into a buffer it has already dropped, so an entry read after the
\* allocations of an earlier iteration (i > DIR_ENTRY_START) is read from
\* freed memory: with uaf those reads see overwritten bytes and the walk is
\* marked wild; a record that is no inode of the image does the same.  A
\* get_inode that returns None panics in expect / unwrap.  btm carries the
\* map, the cached superblock, the build and the log of the get_inode calls
RECURSIVE CacheTree(_, _, _, _, _, _)
RECURSIVE CacheLoop(_, _, _, _, _, _, _, _)
CacheTree(img, btm, cwd, inode_num, uaf, depth) ==
    IF btm.wild \/ btm.panic \/ depth = 0
    THEN [btm EXCEPT !.wild = TRUE]
    ELSE LET g == get_inode(img, btm.sb, inode_num, btm.checked)
             b0 == [btm EXCEPT !.gets = Append(@, g)]
         IN  IF g.fate # "some" THEN [b0 EXCEPT !.panic = TRUE]
             ELSE IF ~g.present THEN [b0 EXCEPT !.wild = TRUE]
             ELSE CacheLoop(img, b0, cwd, inode_num, get_dirents(img, GotInode(img, g)),
                            DIR_ENTRY_START, uaf, depth)
CacheLoop(img, btm, cwd, inode_num, d, i, uaf, depth) ==
    IF btm.wild \/ btm.panic \/ i >= d.num THEN btm
    ELSE IF uaf /\ i > DIR_ENTRY_START THEN [btm EXCEPT !.wild = TRUE]
    ELSE LET e == DirEntryAt(img, d.segs, i)
             new_cwd == abs_name(cwd, inode_num, e.name)
             g == get_inode(img, btm.sb, e.inode, btm.checked)
             b0 == [btm EXCEPT !.gets = Append(@, g)]
         IN  IF g.fate # "some" THEN [b0 EXCEPT !.panic = TRUE]
             ELSE IF ~g.present THEN [b0 EXCEPT !.wild = TRUE]
             ELSE LET b1 == IF is_directory(GotInode(img, g))
                            THEN CacheTree(img, b0, new_cwd, e.inode, uaf, depth - 1)
                            ELSE [b0 EXCEPT !.map =
                                     BtmInsert(@, new_cwd, GotInode(img, g))]
                  IN  CacheLoop(img, b1, cwd, inode_num, d, i + 1, uaf, depth)

\* init_inode_cache behind init_superblock_cache, which cached sb
init_inode_cache(img, sb, uaf, checked) ==
    CacheTree(img, [map |-> {}, wild |-> FALSE, panic |-> FALSE, gets |-> <<>>,
                    sb |-> sb, checked |-> checked],
              "/", ROOT_NODE, uaf, MaxDepth)

\* the reference directory: every entry of the directory file, block after
\* block, as far as the directory's size reaches
RECURSIVE FlatDirFrom(_, _, _)
FlatDirFrom(img, inode, b) ==
    IF b * BLOCK_SIZE >= inode.size THEN <<>>
    ELSE LET z == LogicalZone(img, inode, b)
         IN  (IF z \in DOMAIN img.dirs THEN img.dirs[z] ELSE <<>>)
             \o FlatDirFrom(img, inode, b + 1)
FlatDir(img, inode) == FlatDirFrom(img, inode, 0)

\* the reference path cache: every file that is no directory and is reachable
\* from directory inode_num, under its absolute path
RECURSIVE FlatTree(_, _, _, _)
FlatTree(img, cwd, inode_num, depth) ==
    IF depth = 0 THEN {}
    ELSE LET es == FlatDir(img, img.inodes[inode_num])
             path(e) == cwd \o (IF inode_num # ROOT_NODE THEN "/" ELSE "") \o e.name
         IN  UNION {IF is_directory(img.inodes[es[i].inode])
                    THEN FlatTree(img, path(es[i]), es[i].inode, depth - 1)
                    ELSE {[path |-> path(es[i]), node |-> img.inodes[es[i].inode]]} :
                    i \in DIR_ENTRY_START + 1 .. Len(es)}

\* ---- disk images ----

MkZones(direct, ind, dbl, tpl) ==
    [i \in 1 .. 10 |-> IF i <= Len(direct) THEN direct[i]
                       ELSE IF i = INDIRECT_ZONE + 1 THEN ind
                       ELSE IF i = DOUBLE_INDIRECT_ZONE + 1 THEN dbl
                       ELSE IF i = TRIPLE_INDIRECT_ZONE + 1 THEN tpl
                       ELSE 0]
MkDir(n, direct) ==
    [mode |-> 16877, size |-> n * DirEntrySize, zones |-> MkZones(direct, 0, 0, 0)]
MkFile(size, zones) == [mode |-> 33188, size |-> size, zones |-> zones]
Dots(self, parent) == <<[inode |-> self, name |-> "."], [inode |-> parent, name |-> ".."]>>

\* the root directory holds /hello.txt, 3 bytes
SbGood == [magic |-> MAGIC, imap_blocks |-> 1, zmap_blocks |-> 1]
\* MFS_SUPERBLOCK_CACHE before init
SbZero == [magic |-> 0, imap_blocks |-> 0, zmap_blocks |-> 0]

ImgHello ==
    [sb |-> SbGood,
     inodes |-> (1 :> MkDir(3, <<10>>)) @@ (2 :> MkFile(3, MkZones(<<11>>, 0, 0, 0))),
     ptrs |-> <<>>,
     dirs |-> (10 :> Dots(1, 1) \o <<[inode |-> 2, name |-> "hello.txt"]>>)]

\* nested directories; a two-block file and a file with a hole
ImgNested ==
    [sb |-> SbGood,
     inodes |-> (1 :> MkDir(4, <<10>>))
                @@ (2 :> MkFile(12, MkZones(<<20>>, 0, 0, 0)))
                @@ (3 :> MkDir(4, <<12>>))
                @@ (4 :> MkFile(1500, MkZones(<<21, 22>>, 0, 0, 0)))
                @@ (5 :> MkDir(3, <<13>>))
                @@ (6 :> MkFile(3072, MkZones(<<23, 0, 24>>, 0, 0, 0))),
     ptrs |-> <<>>,
     dirs |-> (10 :> Dots(1, 1) \o <<[inode |-> 3, name |-> "etc"],
                                     [inode |-> 2, name |-> "a.txt"]>>)
              @@ (12 :> Dots(3, 1) \o <<[inode |-> 4, name |-> "b.txt"],
                                        [inode |-> 5, name |-> "sub"]>>)
              @@ (13 :> Dots(5, 3) \o <<[inode |-> 6, name |-> "c.txt"]>>)]

\* a root directory of 15 files: 17 entries in two blocks
ImgWide ==
    [sb |-> SbGood,
     inodes |-> [n \in 1 .. 16 |->
                    IF n = 1 THEN MkDir(17, <<10, 11>>)
                    ELSE MkFile(8, MkZones(<<30 + n>>, 0, 0, 0))],
     ptrs |-> <<>>,
     dirs |-> (10 :> Dots(1, 1) \o [k \in 1 .. 14 |->
                                       [inode |-> k + 1, name |-> <<"f01", "f02", "f03", "f04",
                                           "f05", "f06", "f07", "f08", "f09", "f10", "f11",
                                           "f12", "f13", "f14">>[k]]])
              @@ (11 :> <<[inode |-> 16, name |-> "f15"]>>)]

\* files reaching into the single-, double- and triple-indirect zones
ImgDeep ==
    [sb |-> SbGood,
     inodes |-> (1 :> MkDir(5, <<10>>))
                @@ (2 :> MkFile(10 * BLOCK_SIZE,
                                MkZones(<<40, 41, 42, 43, 44, 45, 46>>, 50, 0, 0)))
                @@ (3 :> MkFile((DIRECT_ZONES + PTR_INDEX_MAX + 1) * BLOCK_SIZE,
                                MkZones(<<>>, 0, 60, 0)))
                @@ (4 :> MkFile((DIRECT_ZONES + PTR_INDEX_MAX + PTR_INDEX_MAX * PTR_INDEX_MAX + 1)
                                    * BLOCK_SIZE,
                                MkZones(<<>>, 0, 0, 70))),
     ptrs |-> (50 :> <<[i |-> 0, z |-> 51], [i |-> 1, z |-> 52], [i |-> 2, z |-> 53],
                       [i |-> 3, z |-> 0]>>)
              @@ (60 :> <<[i |-> 0, z |-> 61], [i |-> 1, z |-> 0]>>)
              @@ (61 :> <<[i |-> 0, z |-> 62], [i |-> 1, z |-> 0]>>)
              @@ (70 :> <<[i |-> 0, z |-> 71], [i |-> 1, z |-> 0]>>)
              @@ (71 :> <<[i |-> 0, z |-> 72], [i |-> 1, z |-> 0]>>)
              @@ (72 :> <<[i |-> 0, z |-> 73], [i |-> 1, z |-> 0]>>),
     dirs |-> (10 :> Dots(1, 1) \o <<[inode |-> 2, name |-> "big"],
                                     [inode |-> 3, name |-> "sparse"],
                                     [inode |-> 4, name |-> "deep"]>>)]

Images == {ImgHello, ImgNested, ImgWide, ImgDeep}
NoImage == [sb |-> SbZero, inodes |-> <<>>, ptrs |-> <<>>, dirs |-> <<>>]

\* the image of /hello.txt with a superblock that is not Minix 3
ImgBadMagic == [ImgHello EXCEPT !.sb.magic = 4991]

\* a root directory whose first entry was deleted (inode 0) and which holds
\* /kept.txt
ImgDeleted ==
    [sb |-> SbGood,
     inodes |-> (1 :> MkDir(4, <<10>>)) @@ (2 :> MkFile(3, MkZones(<<11>>, 0, 0, 0))),
     ptrs |-> <<>>,
     dirs |-> (10 :> Dots(1, 1) \o <<[inode |-> 0, name |-> "gone.txt"],
                                     [inode |-> 2, name |-> "kept.txt"]>>)]

MountImages == {ImgHello, ImgBadMagic, ImgDeleted}

ReadSizes == {0, 1, 8, 12, 100, BLOCK_SIZE, 2 * BLOCK_SIZE}
ReadOffsets ==
    {0, 5, 1000, BLOCK_SIZE, DIRECT_ZONES * BLOCK_SIZE,
     (DIRECT_ZONES + PTR_INDEX_MAX) * BLOCK_SIZE,
     (DIRECT_ZONES + PTR_INDEX_MAX + PTR_INDEX_MAX * PTR_INDEX_MAX) * BLOCK_SIZE}

\* no read by a caller yet
NoRead == ReadStateNew(0, 0, 0)

\* no get_inode call by a caller yet
NoGet == [n |-> 0, fate |-> "idle", read |-> FALSE, wrapped |-> FALSE,
          offset |-> 0, index |-> 0, present |-> FALSE]

\* no filesystem call under way: no buffer held, no request record pending
ScratchIdle ==
    [step |-> "idle", held |-> <<>>, reqs |-> {}, dirents |-> 0, num |-> 0, i |-> 0,
     nreads |-> 0, calls |-> 0]

\* the filesystem before MinixFileSystem::init
FsIdle(img) ==
    /\ fsimg = img
    /\ fsc = ScratchIdle
    /\ cache = [mounted |-> FALSE, map |-> {}, wild |-> FALSE, sb |-> SbZero,
                gets |-> <<>>, panic |-> FALSE]
    /\ fsret = [n |-> 0, path |-> "", size |-> 0, offset |-> 0, ret |-> 0, segs |-> <<>>,
                reads |-> <<>>, get |-> NoGet, rs |-> NoRead]

-----------------------------------------------------------------------------
(* The allocator's public calls as actions.                                *)

\* alloc::init
HeapInit ==
    /\ pages = InitPages
    /\ mem = InitMem
    /\ live = {}
    /\ runs = {[base |-> 0, n |-> PoolPages, id |-> 0]}
    /\ lastOp = [op |-> "init", arg |-> 0, ptr |-> NullPtr, fate |-> "return"]
    /\ ops = 0

AllocInit ==
    /\ HeapInit
    /\ QueueNone
    /\ BlockIdle(FALSE)
    /\ dev = DevReset
    /\ disk = <<>>
    /\ bufs = <<>>

\* ghost: the least id no record of the set carries
FreshId(S) == CHOOSE i \in 0 .. Cardinality(S) : \A x \in S : x.id # i

\* one more allocator call.  After a panic or a trap there is none, and after
\* a call that stored behind the page table memory outside this model has
\* changed: the model follows the program no further
Tick ==
    /\ lastOp.fate = "return"
    /\ ops < MaxOps
    /\ ops' = ops + 1

\* what the build leaves open for a call with n pages: whether the arithmetic
\* is overflow-checked and what a read behind the page table returns; a call
\* with 1 <= n <= num_pages meets neither
Builds(n) ==
    IF n > NumPages
    THEN {[checked |-> c, beyond |-> f] :
             c \in BOOLEAN, f \in {PAGE_FLAG_EMPTY, PAGE_FLAG_TAKEN}}
    ELSE {[checked |-> TRUE, beyond |-> PAGE_FLAG_EMPTY]}

\* alloc_pages(n), or alloc_pages_zeroed(n), which is alloc_pages(n) and the
\* zeroing of the pages returned; r is what PageGrainAllocator::alloc did
AllocPages(n, zeroed, r) ==
    /\ pages' = IF r.ptr = NullPtr THEN pages ELSE PageRuns(r.pages)
    /\ runs' = IF r.ptr = NullPtr THEN runs
               ELSE runs \cup {[base |-> r.ptr, n |-> n, id |-> FreshId(runs)]}
    /\ lastOp' = [op |-> IF zeroed THEN "alloc_pages_zeroed" ELSE "alloc_pages",
                  arg |-> n, ptr |-> r.ptr, fate |-> r.fate]
    /\ UNCHANGED <<mem, live>>
    /\ UNCHANGED blockVars
    /\ UNCHANGED fsVars

\* a caller asks for pages
AllocPagesCall ==
    /\ Tick
    /\ Cardinality(runs) <= MaxRuns
    /\ LET pg == PageTable(pages)
       IN  \E n \in PageCounts :
              \E b \in Builds(n) :
                 LET r == PageGrainAlloc(pg, n, b.checked, b.beyond)
                 IN  \E zeroed \in BOOLEAN : AllocPages(n, zeroed, r)

\* alloc_bytes(sz)
AllocBytes(sz) ==
    /\ Tick
    /\ Cardinality(live) < MaxLive
    /\ LET r == Kmalloc(mem, sz)
       IN  /\ ~r.hang
           /\ mem' = r.mem
           /\ live' = IF r.ptr = NullPtr THEN live
                      ELSE live \cup {[ptr |-> r.ptr, size |-> sz, id |-> FreshId(live)]}
           /\ lastOp' = [op |-> "alloc_bytes", arg |-> sz, ptr |-> r.ptr,
                         fate |-> "return"]
    /\ UNCHANGED <<pages, runs>>
    /\ UNCHANGED fsVars
    /\ UNCHANGED blockVars

\* free_bytes(ptr) of an outstanding allocation
FreeBytes(a) ==
    /\ Tick
    /\ a \in live
    /\ mem' = Kfree(mem, a.ptr)
    /\ live' = live \ {a}
    /\ lastOp' = [op |-> "free_bytes", arg |-> a.ptr, ptr |-> NullPtr, fate |-> "return"]
    /\ UNCHANGED <<pages, runs>>
    /\ UNCHANGED fsVars
    /\ UNCHANGED blockVars

\* free_bytes(null)
FreeNull ==
    /\ Tick
    /\ mem' = Kfree(mem, NullPtr)
    /\ lastOp' = [op |-> "free_null", arg |-> NullPtr, ptr |-> NullPtr, fate |-> "return"]
    /\ UNCHANGED <<pages, runs, live>>
    /\ UNCHANGED fsVars
    /\ UNCHANGED blockVars

\* free_bytes(ptr) once more, of the pointer the call before it freed
FreeAgain ==
    /\ Tick
    /\ lastOp.op = "free_bytes"
    /\ mem' = Kfree(mem, lastOp.arg)
    /\ lastOp' = [op |-> "free_again", arg |-> lastOp.arg, ptr |-> NullPtr,
                  fate |-> "return"]
    /\ UNCHANGED <<pages, runs, live>>
    /\ UNCHANGED fsVars
    /\ UNCHANGED blockVars

\* alloc_bytes_zeroed(sz)
AllocBytesZeroed(sz) ==
    /\ Tick
    /\ Cardinality(live) < MaxLive
    /\ LET r == Kzmalloc(mem, sz)
       IN  /\ ~r.hang
           /\ mem' = r.mem
           /\ live' = IF r.ptr = NullPtr THEN live
                      ELSE live \cup {[ptr |-> r.ptr, size |-> sz, id |-> FreshId(live)]}
           /\ lastOp' = [op |-> "alloc_bytes_zeroed", arg |-> sz, ptr |-> r.ptr,
                         fate |-> "return"]
    /\ UNCHANGED <<pages, runs>>
    /\ UNCHANGED fsVars
    /\ UNCHANGED blockVars

AllocNext ==
    \/ AllocPagesCall
    \/ \E sz \in AllocSizes : AllocBytes(sz)
    \/ \E a \in live : FreeBytes(a)
    \/ FreeNull
    \/ FreeAgain

\* the state after alloc::init, before the drivers are set up
AllocStart == AllocInit /\ FsIdle(NoImage)

SpecAlloc == AllocStart /\ [][AllocNext]_vars

-----------------------------------------------------------------------------
(* Allocator properties.                                                   *)

\* C3: once every outstanding byte allocation has been freed, in whatever
\* order, alloc_bytes(pool_size - header) succeeds: the pool is one free chunk.
C3_FullCoalescence ==
    (ops > 0 /\ live = {}) => Kmalloc(mem, PoolSize - HeaderSize).ptr # NullPtr

BytesDisjoint(a, b) == a.ptr + a.size <= b.ptr \/ b.ptr + b.size <= a.ptr
RunsDisjoint(r, s) ==
    r.base + r.n * PAGE_SIZE <= s.base \/ s.base + s.n * PAGE_SIZE <= r.base

Called(kinds) == ops' = ops + 1 /\ lastOp'.op \in kinds

\* the chunk list as seen from outside: address, size and taken bit of every
\* chunk between the pool start and the pool end
ChunkList(m) ==
    [i \in 1 .. Len(Chunks(m)) |->
        [at |-> Chunks(m)[i],
         size |-> get_size(Load(m, Chunks(m)[i])),
         taken |-> is_taken(Load(m, Chunks(m)[i]))]]

\* a run of n free page records starts at record i
FreeRunAt(pg, i, n) == \A j \in i .. i + n - 1 : j \in DOMAIN pg /\ ~page_is_taken(pg[j])

\* C12: the run an alloc_pages(n) call returns is n consecutive page records,
\* all taken and only the final one last, and the call changes no page record
\* outside that run.
C12_RunMarkedTakenLast ==
    [][(Called({"alloc_pages", "alloc_pages_zeroed"})
        /\ lastOp'.fate \in {"return", "stray"} /\ lastOp'.ptr # NullPtr)
       => LET pg == PageTable(pages)
              pg2 == PageTable(pages')
              b == lastOp'.ptr \div PAGE_SIZE
              run == b .. b + lastOp'.arg - 1
          IN  /\ \A k \in run :
                    /\ k \in DOMAIN pg2
                    /\ page_is_taken(pg2[k])
                    /\ page_is_last(pg2[k]) <=> (k = b + lastOp'.arg - 1)
              /\ \A k \in DOMAIN pg : k \notin run => pg2[k] = pg[k]]_vars

\* C13: for every n >= 1, heap size or not, alloc_pages(n) returns null and
\* leaves every page record unchanged when no run of n contiguous free pages
\* exists, and returns the base address of the lowest-indexed such run when
\* one exists.
C13_FirstFitOrNull ==
    [][(Called({"alloc_pages", "alloc_pages_zeroed"}) /\ lastOp'.arg >= 1)
       => LET pg == PageTable(pages)
              n == lastOp'.arg
              fits == {i \in 0 .. NumPages - n : FreeRunAt(pg, i, n)}
          IN  /\ lastOp'.fate = "return"
              /\ IF fits = {}
                 THEN lastOp'.ptr = NullPtr /\ pages' = pages
                 ELSE \E i \in fits : /\ \A d \in fits : i <= d
                                      /\ lastOp'.ptr = PAGE_SIZE * i]_vars

\* C14: alloc_pages(0) and alloc_pages_zeroed(0) stop at the assertion: the
\* call does not return and no page record is marked.
C14_ZeroPagesAsserts ==
    [][(Called({"alloc_pages", "alloc_pages_zeroed"}) /\ lastOp'.arg = 0)
       => (lastOp'.fate = "panic" /\ pages' = pages)]_vars

\* alloc_pages_zeroed(0) was called with page runs handed out before it
C14_Witness ==
    /\ lastOp.op = "alloc_pages_zeroed"
    /\ lastOp.arg = 0
    /\ lastOp.fate = "panic"
    /\ Cardinality(runs) >= 2

\* C15: alloc_bytes(sz) takes the lowest free chunk of at least sz rounded up
\* to 8 plus the header size; the chunk is split when it is larger than that
\* by more than a header, the remainder being a free chunk directly behind
\* it, and else taken whole; with no such chunk the call returns null and
\* changes no chunk.
C15_FirstFitSplit ==
    [][Called({"alloc_bytes"})
       => LET total == ((lastOp'.arg + 7) \div 8) * 8 + HeaderSize
              cl == ChunkList(mem)
              cl2 == ChunkList(mem')
              fits == {i \in 1 .. Len(cl) : ~cl[i].taken /\ cl[i].size >= total}
          IN  IF fits = {}
              THEN lastOp'.ptr = NullPtr /\ cl2 = cl
              ELSE LET i == CHOOSE c \in fits : \A d \in fits : c <= d
                       c == cl[i]
                       before == SubSeq(cl, 1, i - 1)
                       after == SubSeq(cl, i + 1, Len(cl))
                   IN  /\ lastOp'.ptr = c.at + HeaderSize
                       /\ IF c.size - total > HeaderSize
                          THEN cl2 = before
                                     \o <<[at |-> c.at, size |-> total, taken |-> TRUE],
                                          [at |-> c.at + total, size |-> c.size - total,
                                           taken |-> FALSE]>>
                                     \o after
                          ELSE cl2 = before
                                     \o <<[at |-> c.at, size |-> c.size, taken |-> TRUE]>>
                                     \o after]_vars

\* the last call took a whole chunk that is larger than the rounded request,
\* out of a pool that has a free chunk behind it
C15_Witness ==
    /\ lastOp.op = "alloc_bytes"
    /\ lastOp.ptr # NullPtr
    /\ get_size(Load(mem, lastOp.ptr - HeaderSize)) > align_val(lastOp.arg, 3) + HeaderSize
    /\ \E i \in 1 .. Len(Chunks(mem)) :
          Chunks(mem)[i] > lastOp.ptr /\ is_free(Load(mem, Chunks(mem)[i]))

\* C16: free_bytes(null) and free_bytes of a pointer whose chunk is already
\* free change the size and the taken bit of no chunk of the pool.
C16_FreeOfFreeIsNoOp ==
    [][Called({"free_null", "free_again"}) => ChunkList(mem') = ChunkList(mem)]_vars

\* C17: after free_bytes of a taken chunk the chunk is free and no two chunks
\* next to each other between pool start and pool end are both free.
C17_NoAdjacentFree ==
    lastOp.op = "free_bytes" =>
        /\ is_free(Load(mem, lastOp.arg - HeaderSize))
        /\ \A i \in 1 .. Len(Chunks(mem)) - 1 :
              ~(ChunkList(mem)[i].taken = FALSE /\ ChunkList(mem)[i + 1].taken = FALSE)

RECURSIVE SumSizes(_)
SumSizes(cl) == IF cl = <<>> THEN 0 ELSE cl[1].size + SumSizes(Tail(cl))

\* C18: the walk over the chunk headers from the pool start lands exactly on
\* the pool end and the chunk sizes add up to the pool's 512 pages of 4096
\* bytes; after init the pool is one free chunk of that size.
C18_ChunksTileThePool ==
    /\ SumSizes(ChunkList(mem)) = 512 * 4096
    /\ \A i \in 1 .. Len(Chunks(mem)) : ChunkList(mem)[i].size > 0
    /\ ops = 0 => ChunkList(mem) = <<[at |-> 0, size |-> 512 * 4096, taken |-> FALSE]>>

\* a free chunk that a merge made lies between two taken chunks, in front of
\* the free rest of the pool
C18_Witness ==
    /\ lastOp.op = "free_bytes"
    /\ Len(Chunks(mem)) >= 4
    /\ ChunkList(mem)[1].taken
    /\ ~ChunkList(mem)[2].taken
    /\ ChunkList(mem)[3].taken

-----------------------------------------------------------------------------
(* The byte pool under requests of every residue modulo 8, the empty       *)
(* request included.                                                       *)

AlignSizes == {0, 1, 7, 8, 9, 24}

AlignNext ==
    \/ \E sz \in AlignSizes : AllocBytes(sz)
    \/ \E sz \in AlignSizes : AllocBytesZeroed(sz)
    \/ \E a \in live : FreeBytes(a)
    \/ FreeNull
    \/ FreeAgain

SpecAlign == AllocStart /\ [][AlignNext]_vars

\* the chunks of the pool with their sizes, up to the first header of size 0
ChunkSizes(m) == {get_size(Load(m, Chunks(m)[i])) : i \in 1 .. Len(Chunks(m))}

\* C40: every chunk of the byte pool has a size that is a multiple of 8 and at
\* least the header size, the walk over the chunks reaches the pool end without
\* meeting a size of 0, and every pointer alloc_bytes or alloc_bytes_zeroed
\* returned is 8-byte aligned
C40_ChunkSizesAligned ==
    /\ \A sz \in ChunkSizes(mem) : sz % 8 = 0 /\ sz >= HeaderSize
    /\ SumSizes(ChunkList(mem)) = PoolSize
    /\ \A a \in live : a.ptr % 8 = 0
    /\ (lastOp.op \in {"alloc_bytes", "alloc_bytes_zeroed"} /\ lastOp.ptr # NullPtr)
           => lastOp.ptr % 8 = 0

\* the pool holds a taken chunk of the header alone, made by a request of 0
\* bytes, a taken chunk of a request that was rounded up, and a free chunk in
\* front of them that a free_bytes call left
C40_Witness ==
    /\ \E a \in live : a.size = 0 /\ get_size(Load(mem, a.ptr - HeaderSize)) = HeaderSize
    /\ \E a \in live : a.size % 8 # 0 /\ is_taken(Load(mem, a.ptr - HeaderSize))
    /\ Len(Chunks(mem)) >= 4
    /\ ~ChunkList(mem)[1].taken

-----------------------------------------------------------------------------
(* The heap region and the page runs.                                      *)

PAGE_ORDER == 12
\* size_of::<PageGrainFlags>(): one u8
PageGrainFlagsSize == 1

\* HEAP_START as an offset from BYTE_GRAIN_ALLOC.start, which init sets to
\* align_val(HEAP_START + num_pages * size_of::<PageGrainFlags>(), PAGE_ORDER);
\* the linker script places the heap on a page boundary
HEAP_START == 0 - align_val(NumPages * PageGrainFlagsSize, PAGE_ORDER)

\* the values of HEAP_SIZE for which HEAP_SIZE / PAGE_SIZE is num_pages:
\* the least and the greatest
HeapSizes == {NumPages * PAGE_SIZE, NumPages * PAGE_SIZE + PAGE_SIZE - 1}

\* the end of the page record table
PageTableEnd == HEAP_START + NumPages * PageGrainFlagsSize

\* the bytes of a run: [base, base + n * PAGE_SIZE)
RunEnd(r) == r.base + r.n * PAGE_SIZE

\* C38: every page run handed out, the byte pool's included, lies inside
\* [HEAP_START, HEAP_START + HEAP_SIZE) and begins at or behind the end of
\* the page record table
C38_RunsInsideHeap ==
    \A r \in runs :
        /\ HEAP_START <= r.base
        /\ PageTableEnd <= r.base
        /\ \A heap_size \in HeapSizes : RunEnd(r) <= HEAP_START + heap_size

\* C38 for the runs that end in front of the last pages of the table, as many
\* pages as the table itself takes: these lie inside the heap
C38_RunsBelowTableShift ==
    \A r \in runs :
        r.base \div PAGE_SIZE + r.n <= NumPages + HEAP_START \div PAGE_SIZE =>
            /\ HEAP_START <= r.base
            /\ PageTableEnd <= r.base
            /\ \A heap_size \in HeapSizes : RunEnd(r) <= HEAP_START + heap_size

-----------------------------------------------------------------------------
(* The block driver's state after virtio::init and its steps.              *)

\* size_of::<Queue>(): 128 descriptors and the available ring padded to one
\* page, then the used ring
QueueSize == 5128
QueuePages == (QueueSize + PAGE_SIZE - 1) \div PAGE_SIZE

\* the two 512-byte buffers the callers of the driver allocate (test.rs)
BufA == Kmalloc(InitMem, SectorSize).ptr
BufB == Kmalloc(Kmalloc(InitMem, SectorSize).mem, SectorSize).ptr
BufMem == Kmalloc(Kmalloc(InitMem, SectorSize).mem, SectorSize).mem

\* the queue's pages: the first run behind the pool
QueueBase == PageAlloc(PageTable(InitPages), QueuePages).ptr

\* the register writes of a BlockDevice::init that returned true
RegsReady ==
    LET s1 == init_status(<<>>)
        s2 == init_guest_features(s1.regs, 0)
        s3 == init_status_check(s2.regs, s1.status_bits, STATUS_FIELD_FEATURES_OK)
        s4 == init_queue_check(s3.regs, VIRTIO_RING_SIZE)
    IN  init_notify(init_pfn(s4.regs, QueueBase), s3.status_bits)

\* the state after alloc::init, virtio::init and the callers' alloc_bytes(512)
BlockInit(ro, ie) ==
    /\ pages = PageRuns(PageAlloc(PageTable(InitPages), QueuePages).pages)
    /\ runs = {[base |-> 0, n |-> PoolPages, id |-> 0],
               [base |-> PageAlloc(PageTable(InitPages), QueuePages).ptr,
                n |-> QueuePages, id |-> 1]}
    /\ mem = BufMem
    /\ live = {[ptr |-> BufA, size |-> SectorSize, id |-> 0],
               [ptr |-> BufB, size |-> SectorSize, id |-> 1]}
    /\ lastOp = [op |-> "alloc_bytes", arg |-> SectorSize, ptr |-> BufB, fate |-> "return"]
    /\ ops = 0
    /\ QueueInit(ro)
    /\ BlockIdle(ie)
    /\ dev = [DevReset EXCEPT !.regs = RegsReady,
                              !.host_features = IF ro THEN VIRTIO_FEATURE_RO ELSE 0]
    /\ FsIdle(NoImage)
    /\ disk = [s \in 0 .. 3 |-> 176 + s]
    /\ bufs = [a \in {BufA, BufB} |-> IF a = BufA THEN <<7>> ELSE <<0>>]

\* block_operation without its test of read_only
RejectsNever(b, write) == FALSE

\* block_operation: self.read_only && write
Rejects(b, write) == b.read_only /\ write

\* block::read / block::write with BLOCK_DEVICE None: logs and returns
NoDevice(write, buffer, size, offset) ==
    /\ pc.step = "idle"
    /\ ~bd.installed
    /\ rets' = Append(rets, [k |-> 0, write |-> write, buf |-> buffer, offset |-> offset,
                             size |-> size, timedOut |-> FALSE, rejected |-> FALSE,
                             absent |-> TRUE, data |-> bufs[buffer]])
    /\ UNCHANGED <<allocVars, queueVars, dev, irq, mie, pc, disk, bufs,
                   reqlog, usedlog, freelog>>
    /\ UNCHANGED fsVars

\* block_operation on a read-only device asked to write: logs and returns
Reject(write, buffer, size, offset) ==
    /\ pc.step = "idle"
    /\ bd.installed
    /\ Rejects(bd, write)
    /\ rets' = Append(rets, [k |-> 0, write |-> write, buf |-> buffer, offset |-> offset,
                             size |-> size, timedOut |-> FALSE,
                             rejected |-> TRUE, absent |-> FALSE, data |-> bufs[buffer]])
    /\ UNCHANGED <<allocVars, queueVars, dev, irq, mie, pc, disk, bufs,
                   reqlog, usedlog, freelog>>
    /\ UNCHANGED fsVars

\* block_header behind its alloc_bytes, which left the memory m and returned req
HeaderStores(m, req, write, buffer, size, offset) ==
    /\ LET f == fill_next_descriptor(bd, desc, HeaderDesc(req))
       IN  /\ bd' = f.bd
           /\ desc' = f.desc
           /\ reqlog' = Append(reqlog, [req |-> req, head |-> f.idx, slot |-> 0 - 1,
                                        write |-> write, buf |-> buffer,
                                        sector |-> offset \div SectorSize,
                                        delivered |-> FALSE])
           /\ \E trap \in (IF req = NullPtr THEN BOOLEAN ELSE {FALSE}) :
                 /\ mem' = IF trap THEN m
                           ELSE HeaderFields(m, req, buffer, offset, write)
                 /\ pc' = [PcIdle EXCEPT !.step = IF trap THEN "trap" ELSE "data",
                                         !.write = write, !.buf = buffer,
                                         !.size = size, !.offset = offset,
                                         !.req = req, !.head = f.idx]
    /\ UNCHANGED <<pages, live, runs, lastOp, ops, avail, used, dev, irq, mie,
                   disk, bufs, usedlog, freelog, rets>>
    /\ UNCHANGED fsVars

\* block_operation up to the return of block_header.  block_header does not
\* test the result of alloc_bytes: with a null record the descriptor is built
\* and stored all the same, and the stores of the fields go through the null
\* pointer, where they land in the memory at address 0 or trap the hart
Header(write, buffer, size, offset) ==
    /\ pc.step = "idle"
    /\ bd.installed
    /\ ~Rejects(bd, write)
    /\ LET r == Kmalloc(mem, RequestSize)
       IN  /\ ~r.hang
           /\ HeaderStores(r.mem, r.ptr, write, buffer, size, offset)

\* block_data
Data ==
    /\ pc.step = "data"
    /\ LET f == fill_next_descriptor(bd, desc, DataDesc(pc.buf, pc.size, pc.write))
       IN  /\ bd' = f.bd
           /\ desc' = f.desc
    /\ pc' = [pc EXCEPT !.step = "status"]
    /\ UNCHANGED <<allocVars, avail, used, dev, irq, mie, disk, bufs,
                   reqlog, usedlog, freelog, rets>>
    /\ UNCHANGED fsVars

\* block_status
Status ==
    /\ pc.step = "status"
    /\ LET f == fill_next_descriptor(bd, desc, StatusDesc(pc.req))
       IN  /\ bd' = f.bd
           /\ desc' = f.desc
    /\ pc' = [pc EXCEPT !.step = "publish"]
    /\ UNCHANGED <<allocVars, avail, used, dev, irq, mie, disk, bufs,
                   reqlog, usedlog, freelog, rets>>
    /\ UNCHANGED fsVars

\* block_notify: the head enters the available ring and avail.idx advances
Publish ==
    /\ pc.step = "publish"
    /\ LET idx == avail.idx % VIRTIO_RING_SIZE
       IN  /\ avail' = [idx |-> (avail.idx + 1) % U16,
                        ring |-> RingStore(avail.ring, idx, pc.head)]
           /\ pc' = [pc EXCEPT !.step = "clear", !.slot = idx]
           /\ reqlog' = [reqlog EXCEPT ![Len(reqlog)].slot = idx]
    /\ UNCHANGED <<allocVars, bd, desc, used, dev, irq, mie, disk, bufs,
                   usedlog, freelog, rets>>
    /\ UNCHANGED fsVars

\* block_notify: self.ready[idx] = false
Clear ==
    /\ pc.step = "clear"
    /\ bd' = [bd EXCEPT !.notReady = @ \cup {pc.slot}]
    /\ pc' = [pc EXCEPT !.step = "doorbell"]
    /\ UNCHANGED <<allocVars, desc, avail, used, dev, irq, mie, disk, bufs,
                   reqlog, usedlog, freelog, rets>>
    /\ UNCHANGED fsVars

\* block_notify: the write to MMIO_QUEUE_NOTIFY
Doorbell ==
    /\ pc.step = "doorbell"
    /\ dev' = [dev EXCEPT !.running = TRUE]
    /\ pc' = [pc EXCEPT !.step = "spin"]
    /\ UNCHANGED <<allocVars, queueVars, irq, mie, disk, bufs,
                   reqlog, usedlog, freelog, rets>>
    /\ UNCHANGED fsVars

\* one iteration of the spin loop of block_operation
Spin ==
    /\ pc.step = "spin"
    /\ SpinAgain(bd, pc.slot, pc.counter)
    /\ pc' = [pc EXCEPT !.counter = @ + 1]
    /\ UNCHANGED <<allocVars, queueVars, dev, irq, mie, disk, bufs,
                   reqlog, usedlog, freelog, rets>>
    /\ UNCHANGED fsVars

\* the loop ends and block_operation returns (), with the flag set or not
Return ==
    /\ pc.step = "spin"
    /\ ~SpinAgain(bd, pc.slot, pc.counter)
    /\ pc' = PcIdle
    /\ rets' = Append(rets, [k |-> Len(reqlog), write |-> pc.write, buf |-> pc.buf,
                             offset |-> pc.offset, size |-> pc.size,
                             timedOut |-> pc.slot \in bd.notReady,
                             rejected |-> FALSE, absent |-> FALSE, data |-> bufs[pc.buf]])
    /\ UNCHANGED <<allocVars, queueVars, dev, irq, mie, disk, bufs,
                   reqlog, usedlog, freelog>>
    /\ UNCHANGED fsVars

\* the device takes the next available entry and reads its chain
DevFetch ==
    /\ dev.running
    /\ dev.last_avail # avail.idx
    /\ Cardinality(dev.pending) < MaxDevPending
    /\ LET head == RingAt(avail.ring, dev.last_avail % VIRTIO_RING_SIZE)
       IN  dev' = [dev EXCEPT !.last_avail = (@ + 1) % U16,
                              !.pending = @ \cup {DevParse(desc, mem, head, dev.last_avail + 1)}]
    /\ UNCHANGED <<allocVars, queueVars, irq, mie, pc, disk, bufs,
                   reqlog, usedlog, freelog, rets>>
    /\ UNCHANGED fsVars

\* the device has consumed the available ring and waits for the next doorbell
DevIdle ==
    /\ dev.running
    /\ dev.last_avail = avail.idx
    /\ dev' = [dev EXCEPT !.running = FALSE]
    /\ UNCHANGED <<allocVars, queueVars, irq, mie, pc, disk, bufs,
                   reqlog, usedlog, freelog, rets>>
    /\ UNCHANGED fsVars

\* the device finishes a request it holds: the transfer, the status byte, the
\* used-ring entry and the interrupt
DevComplete(e) ==
    /\ e \in dev.pending
    /\ LET n == e.len \div SectorSize
           toBuf == e.type = VIRTIO_BLK_TYPE_IN /\ e.dwrite /\ e.addr \in DOMAIN bufs
           toDisk == e.type = VIRTIO_BLK_TYPE_OUT /\ e.addr \in DOMAIN bufs
       IN  /\ bufs' = IF toBuf THEN [bufs EXCEPT ![e.addr] = DiskRead(disk, e.sector, n)]
                      ELSE bufs
           /\ disk' = IF toDisk THEN DiskWrite(disk, e.sector, bufs[e.addr]) ELSE disk
           /\ reqlog' = [reqlog EXCEPT ![e.k].delivered =
                            toBuf /\ e.addr = reqlog[e.k].buf /\ e.sector = reqlog[e.k].sector]
    /\ mem' = IF e.staddr = NullPtr THEN mem ELSE StoreByte(mem, e.staddr, 0)
    /\ used' = [idx |-> (used.idx + 1) % U16,
                ring |-> RingStore(used.ring, used.idx % VIRTIO_RING_SIZE,
                                   [id |-> e.id, len |-> e.len])]
    /\ dev' = [dev EXCEPT !.pending = @ \ {e}]
    /\ irq' = TRUE
    /\ usedlog' = Append(usedlog, e.k)
    /\ UNCHANGED <<pages, live, runs, lastOp, ops, bd, desc, avail, mie, pc,
                   freelog, rets>>
    /\ UNCHANGED fsVars

\* block::interrupt_handler, entered from the PLIC with interrupts enabled
Interrupt ==
    /\ irq /\ mie
    /\ bd.installed
    /\ LET r == use_queue(bd, desc, used, mem)
       IN  /\ bd' = r.bd
           /\ mem' = r.mem
           /\ freelog' = freelog \o r.log
    /\ irq' = FALSE
    /\ UNCHANGED <<pages, live, runs, lastOp, ops, desc, avail, used, dev, mie, pc,
                   disk, bufs, reqlog, usedlog, rets>>
    /\ UNCHANGED fsVars

\* the calls the callers make: a write of buffer A, a read into buffer B
CallInputs ==
    {[write |-> w, buf |-> IF w THEN BufA ELSE BufB, size |-> SectorSize, offset |-> o] :
        w \in BOOLEAN, o \in {0, 2 * SectorSize}}

\* calls made so far, returned or not
NCalls == Len(rets) + (IF pc.step = "idle" THEN 0 ELSE 1)

BlockNext ==
    \/ \E c \in CallInputs :
          NCalls < MaxCalls /\ Reject(c.write, c.buf, c.size, c.offset)
    \/ \E c \in CallInputs :
          NCalls < MaxCalls /\ Header(c.write, c.buf, c.size, c.offset)
    \/ Data
    \/ Status
    \/ Publish
    \/ Clear
    \/ Doorbell
    \/ Spin
    \/ Return
    \/ DevFetch
    \/ DevIdle
    \/ \E e \in dev.pending : DevComplete(e)
    \/ Interrupt

\* the device negotiated read-only or not; machine interrupts enabled
BlockStart == \E ro \in BOOLEAN : BlockInit(ro, TRUE)

SpecBlock == BlockStart /\ [][BlockNext]_vars


\* the steps of a call under way; the hart runs them whenever no handler runs
MainStep == Data \/ Status \/ Publish \/ Clear \/ Doorbell \/ Spin \/ Return

\* the driver with a main line that keeps executing
SpecBlockFair == BlockStart /\ [][BlockNext]_vars /\ WF_vars(MainStep)

\* the read test_block_device_stress repeats: block::read(buffer, 512, 512 * 2)
StressRead == [write |-> FALSE, buf |-> BufB, size |-> SectorSize, offset |-> 2 * SectorSize]

\* the stress loop with every completion interrupt inside the spin budget: a
\* call returns only with its ready flag seen true
StressNext ==
    \/ NCalls < StressCalls
       /\ Header(StressRead.write, StressRead.buf, StressRead.size, StressRead.offset)
    \/ Data
    \/ Status
    \/ Publish
    \/ Clear
    \/ Doorbell
    \/ Spin
    \/ pc.slot \notin bd.notReady /\ Return
    \/ DevFetch
    \/ DevIdle
    \/ \E e \in dev.pending : DevComplete(e)
    \/ Interrupt

StressStart == BlockInit(FALSE, TRUE)

SpecStress == StressStart /\ [][StressNext]_vars

\* the stress read repeated until the descriptor index is about to wrap, then
\* the callers' reads and writes, each call completed inside the spin budget
RingNext ==
    \/ NCalls < RingCalls - LastCalls
       /\ Header(StressRead.write, StressRead.buf, StressRead.size, StressRead.offset)
    \/ \E c \in CallInputs :
          /\ NCalls >= RingCalls - LastCalls
          /\ NCalls < RingCalls
          /\ Header(c.write, c.buf, c.size, c.offset)
    \/ Data
    \/ Status
    \/ Publish
    \/ Clear
    \/ Doorbell
    \/ Spin
    \/ pc.slot \notin bd.notReady /\ Return
    \/ DevFetch
    \/ DevIdle
    \/ \E e \in dev.pending : DevComplete(e)
    \/ Interrupt

SpecRing == StressStart /\ [][RingNext]_vars

\* kernel_main: the boot code returns into it with machine interrupts enabled
KernelMain ==
    /\ pc.step = "idle"
    /\ ~mie
    /\ NCalls = BacklogCalls
    /\ mie' = TRUE
    /\ UNCHANGED <<allocVars, queueVars, dev, irq, pc, disk, bufs,
                   reqlog, usedlog, freelog, rets>>
    /\ UNCHANGED fsVars

\* reads made with machine interrupts disabled, as under kernel_init, against
\* a device that completes each request before the next call; the interrupt
\* is taken once kernel_main has enabled it
BacklogNext ==
    \/ /\ ~mie
       /\ NCalls < BacklogCalls
       /\ Len(usedlog) = Len(reqlog)
       /\ Header(StressRead.write, StressRead.buf, StressRead.size, StressRead.offset)
    \/ Data
    \/ Status
    \/ Publish
    \/ Clear
    \/ Doorbell
    \/ Spin
    \/ Return
    \/ DevFetch
    \/ DevIdle
    \/ \E e \in dev.pending : DevComplete(e)
    \/ KernelMain
    \/ Interrupt

BacklogStart == BlockInit(FALSE, FALSE)

SpecBacklog == BacklogStart /\ [][BacklogNext]_vars

\* block_header's alloc_bytes up to the read of the chunk size in kmalloc
HeaderFind(write, buffer, size, offset) ==
    /\ pc.step = "idle"
    /\ bd.installed
    /\ ~Rejects(bd, write)
    /\ LET r == KmallocFind(mem, 0, align_val(RequestSize, 3) + HeaderSize)
       IN  /\ ~r.hang
           /\ pc' = [PcIdle EXCEPT !.step = "kmalloc", !.write = write, !.buf = buffer,
                                   !.size = size, !.offset = offset,
                                   !.req = IF r.found THEN r.head + HeaderSize ELSE NullPtr,
                                   !.chunk_size = r.chunk_size]
    /\ UNCHANGED <<allocVars, queueVars, dev, irq, mie, disk, bufs,
                   reqlog, usedlog, freelog, rets>>
    /\ UNCHANGED fsVars

\* the stores of kmalloc and the rest of block_header
HeaderTake ==
    /\ pc.step = "kmalloc"
    /\ HeaderStores(IF pc.req = NullPtr THEN mem
                    ELSE KmallocTakeRead(mem, pc.req - HeaderSize,
                                         align_val(RequestSize, 3) + HeaderSize,
                                         pc.chunk_size),
                    pc.req, pc.write, pc.buf, pc.size, pc.offset)

\* the driver with the interrupt taken inside kmalloc as well
RaceNext ==
    \/ \E c \in CallInputs :
          NCalls < MaxCalls /\ Reject(c.write, c.buf, c.size, c.offset)
    \/ \E c \in CallInputs :
          NCalls < MaxCalls /\ HeaderFind(c.write, c.buf, c.size, c.offset)
    \/ HeaderTake
    \/ Data
    \/ Status
    \/ Publish
    \/ Clear
    \/ Doorbell
    \/ Spin
    \/ Return
    \/ DevFetch
    \/ DevIdle
    \/ \E e \in dev.pending : DevComplete(e)
    \/ Interrupt

SpecRace == BlockStart /\ [][RaceNext]_vars

-----------------------------------------------------------------------------
(* kernel_init and kernel_main: the heap, BlockDevice::init step by step   *)
(* against a device whose answers are open, then the driver's callers.     *)

\* what the device may answer to the reads of BlockDevice::init: its features,
\* whether it echoes FEATURES_OK, its largest queue size
HostFeatures == {0, VIRTIO_FEATURE_RO}
QueueMax == {VIRTIO_RING_SIZE \div 2, VIRTIO_RING_SIZE, 8 * VIRTIO_RING_SIZE}

\* a step of BlockDevice::init that touches only the device registers and
\* init's locals
InitStep(regs, pcNext) ==
    /\ dev' = [dev EXCEPT !.regs = regs]
    /\ pc' = pcNext
    /\ UNCHANGED <<allocVars, queueVars, irq, mie, disk, bufs,
                   reqlog, usedlog, freelog, rets>>
    /\ UNCHANGED fsVars

\* virtio::init finds the block device: block::init, BlockDevice::init_status
InitStatus ==
    /\ pc.step = "idle"
    /\ dev.regs = <<>>
    /\ LET r == init_status(dev.regs)
       IN  InitStep(r.regs, [pc EXCEPT !.step = "init_guest_features",
                                       !.status_bits = r.status_bits])

InitGuestFeatures ==
    /\ pc.step = "init_guest_features"
    /\ LET r == init_guest_features(dev.regs, dev.host_features)
       IN  InitStep(r.regs, [pc EXCEPT !.step = "init_status_check", !.ro = r.ro])

\* the device echoes the status written, with or without FEATURES_OK
InitStatusCheck ==
    /\ pc.step = "init_status_check"
    /\ LET sb_out == BitOr(pc.status_bits, STATUS_FIELD_FEATURES_OK)
           r == init_status_check(dev.regs, pc.status_bits,
                                  IF dev.features_ok THEN sb_out ELSE pc.status_bits)
       IN  InitStep(r.regs, IF r.pass
                            THEN [pc EXCEPT !.step = "init_queue_check",
                                            !.status_bits = r.status_bits]
                            ELSE PcIdle)

InitQueueCheck ==
    /\ pc.step = "init_queue_check"
    /\ LET r == init_queue_check(dev.regs, dev.queue_max)
       IN  InitStep(r.regs, IF r.pass THEN [pc EXCEPT !.step = "init_pfn"] ELSE PcIdle)

\* init_pfn: alloc_pages_zeroed for the queue, then the two register writes
InitPfn ==
    /\ pc.step = "init_pfn"
    /\ LET r == PageGrainAlloc(PageTable(pages), QueuePages, TRUE, PAGE_FLAG_EMPTY)
       IN  /\ pages' = PageRuns(r.pages)
           /\ runs' = runs \cup {[base |-> r.ptr, n |-> QueuePages, id |-> FreshId(runs)]}
           /\ lastOp' = [op |-> "alloc_pages_zeroed", arg |-> QueuePages,
                         ptr |-> r.ptr, fate |-> r.fate]
           /\ dev' = [dev EXCEPT !.regs = init_pfn(dev.regs, r.ptr)]
    /\ pc' = [pc EXCEPT !.step = "init_bd"]
    /\ UNCHANGED <<mem, live, ops, queueVars, irq, mie, disk, bufs,
                   reqlog, usedlog, freelog, rets>>
    /\ UNCHANGED fsVars

\* init_bd: BLOCK_DEVICE = Some(bd)
InitBd ==
    /\ pc.step = "init_bd"
    /\ bd' = [installed |-> TRUE, idx |-> 0, ack_used_idx |-> 0, read_only |-> pc.ro,
              notReady |-> {}]
    /\ pc' = [pc EXCEPT !.step = "init_notify"]
    /\ UNCHANGED <<allocVars, desc, avail, used, dev, irq, mie, disk, bufs,
                   reqlog, usedlog, freelog, rets>>
    /\ UNCHANGED fsVars

\* init_notify, and BlockDevice::init returns true
InitNotify ==
    /\ pc.step = "init_notify"
    /\ InitStep(init_notify(dev.regs, pc.status_bits), PcIdle)

\* BlockDevice::init has returned, true or false
InitDone == pc.step = "idle" /\ dev.regs # <<>>

\* kernel_init returns and kernel_main runs with interrupts enabled
EnterMain ==
    /\ InitDone
    /\ ~mie
    /\ mie' = TRUE
    /\ UNCHANGED <<allocVars, queueVars, dev, irq, pc, disk, bufs,
                   reqlog, usedlog, freelog, rets>>
    /\ UNCHANGED fsVars

\* the callers of the driver allocate their 512-byte buffers (test.rs)
AllocBuffers ==
    /\ InitDone
    /\ mie
    /\ bufs = <<>>
    /\ LET a == Kmalloc(mem, SectorSize)
           b == Kmalloc(a.mem, SectorSize)
       IN  /\ mem' = b.mem
           /\ live' = {[ptr |-> a.ptr, size |-> SectorSize, id |-> 0],
                       [ptr |-> b.ptr, size |-> SectorSize, id |-> 1]}
           /\ lastOp' = [op |-> "alloc_bytes", arg |-> SectorSize, ptr |-> b.ptr,
                         fate |-> "return"]
           /\ bufs' = [x \in {a.ptr, b.ptr} |-> IF x = a.ptr THEN <<7>> ELSE <<0>>]
    /\ UNCHANGED <<pages, runs, ops, queueVars, dev, irq, mie, pc, disk,
                   reqlog, usedlog, freelog, rets>>
    /\ UNCHANGED fsVars

\* block::interrupt_handler with BLOCK_DEVICE None: logs and returns; the PLIC
\* claim is completed
NoDeviceInterrupt ==
    /\ InitDone
    /\ mie
    /\ ~bd.installed
    /\ irq' = FALSE
    /\ UNCHANGED <<allocVars, queueVars, dev, mie, pc, disk, bufs,
                   reqlog, usedlog, freelog, rets>>
    /\ UNCHANGED fsVars

\* what is left of the pool behind the two buffers, less its header
RestSize == PoolSize - 2 * (SectorSize + HeaderSize) - HeaderSize

\* another caller takes the rest of the pool: the next alloc_bytes finds no
\* chunk and returns null
HoldRest ==
    /\ InitDone
    /\ bufs # <<>>
    /\ AllocBytes(RestSize)

BootNext ==
    \/ InitStatus
    \/ InitGuestFeatures
    \/ InitStatusCheck
    \/ InitQueueCheck
    \/ InitPfn
    \/ InitBd
    \/ InitNotify
    \/ EnterMain
    \/ AllocBuffers
    \/ HoldRest
    \/ \E c \in CallInputs :
          bufs # <<>> /\ NCalls < MaxCalls /\ NoDevice(c.write, c.buf, c.size, c.offset)
    \/ NoDeviceInterrupt
    \/ \E c \in CallInputs :
          bufs # <<>> /\ NCalls < MaxCalls /\ Reject(c.write, c.buf, c.size, c.offset)
    \/ \E c \in CallInputs :
          bufs # <<>> /\ NCalls < MaxCalls /\ Header(c.write, c.buf, c.size, c.offset)
    \/ Data
    \/ Status
    \/ Publish
    \/ Clear
    \/ Doorbell
    \/ Spin
    \/ Return
    \/ DevFetch
    \/ DevIdle
    \/ \E e \in dev.pending : DevComplete(e)
    \/ Interrupt

\* the state after alloc::init, the disk attached and the device reset
BootStart ==
    /\ HeapInit
    /\ QueueNone
    /\ BlockIdle(FALSE)
    /\ \E h \in HostFeatures, a \in BOOLEAN, q \in QueueMax :
          dev = [DevReset EXCEPT !.host_features = h, !.features_ok = a, !.queue_max = q]
    /\ FsIdle(NoImage)
    /\ disk = [s \in 0 .. 3 |-> 176 + s]
    /\ bufs = <<>>

SpecBoot == BootStart /\ [][BootNext]_vars

-----------------------------------------------------------------------------
(* Boot properties.                                                        *)

\* C19: an allocation that cannot be satisfied aborts the kernel, so no
\* caller goes on with a null result: no request record the driver submitted
\* is the null pointer and no descriptor it stored points at address null
C19_NoNullResultUsed ==
    /\ \A i \in 1 .. Len(reqlog) : reqlog[i].req # NullPtr
    /\ \A i \in DOMAIN desc : desc[i].addr # NullPtr

\* the DRIVER bit of the virtio status register; block.rs has no name for it
STATUS_FIELD_DRIVER == 2

\* the values written to the status register, in order
StatusWrites == [i \in 1 .. Len(RegWrites(dev.regs, "STATUS")) |->
                    RegWrites(dev.regs, "STATUS")[i].val]

\* register `reg` was written before the i-th register write
WrittenBefore(reg, i) == \E j \in 1 .. i - 1 : dev.regs[j].reg = reg

\* C20: init writes the status register in the order 0, ACKNOWLEDGE,
\* ACKNOWLEDGE+DRIVER, then FEATURES_OK on top; a status write carries the
\* DRIVER_OK bit only after FEATURES_OK was written and the queue size and
\* the queue page frame number were programmed
C20_StatusNegotiationOrder ==
    /\ Len(StatusWrites) >= 1 => StatusWrites[1] = 0
    /\ Len(StatusWrites) >= 2 => StatusWrites[2] = STATUS_FIELD_ACKNOWLEDGE
    /\ Len(StatusWrites) >= 3 =>
          StatusWrites[3] = STATUS_FIELD_ACKNOWLEDGE + STATUS_FIELD_DRIVER
    /\ Len(StatusWrites) >= 4 =>
          StatusWrites[4] = STATUS_FIELD_ACKNOWLEDGE + STATUS_FIELD_DRIVER
                            + STATUS_FIELD_FEATURES_OK
    /\ \A i \in 1 .. Len(dev.regs) :
          (dev.regs[i].reg = "STATUS" /\ HasFlag(dev.regs[i].val, STATUS_FIELD_DRIVER_OK))
          => /\ \E j \in 1 .. i - 1 :
                   /\ dev.regs[j].reg = "STATUS"
                   /\ HasFlag(dev.regs[j].val, STATUS_FIELD_FEATURES_OK)
             /\ WrittenBefore("QUEUE_NUMBER", i)
             /\ WrittenBefore("QUEUE_PFN", i)

\* the last value the driver wrote to a device register
LastWrite == dev.regs[Len(dev.regs)]

\* a block::read or block::write call returns in this step
CallReturns == Len(rets') = Len(rets) + 1

\* C21: a device that does not echo FEATURES_OK gets FAILED written to its
\* status register as the last write of init; no queue pages are allocated and
\* BLOCK_DEVICE stays None, and from then on no read, write or interrupt
\* handler call submits anything or changes driver, queue, device or
\* allocator state
C21_FeaturesRefused ==
    /\ [](~dev.features_ok /\ InitDone =>
            /\ LastWrite = [reg |-> "STATUS", val |-> STATUS_FIELD_FAILED]
            /\ ~bd.installed
            /\ pages = InitPages /\ runs = {[base |-> 0, n |-> PoolPages, id |-> 0]}
            /\ desc = <<>> /\ avail.idx = 0 /\ reqlog = <<>> /\ freelog = <<>>)
    /\ [][~dev.features_ok /\ InitDone =>
            /\ UNCHANGED <<queueVars, dev, pc, pages, runs, reqlog, usedlog, freelog>>
            /\ (CallReturns \/ irq' # irq) => UNCHANGED allocVars]_vars

\* two calls were made on the device that refused the features
C21_Witness ==
    /\ ~dev.features_ok
    /\ Len(rets) = 2 /\ rets[1].absent /\ rets[2].absent /\ rets[1].write /\ ~rets[2].write

\* C22: with a device whose largest queue is smaller than the ring, init
\* leaves FAILED in the status register and BLOCK_DEVICE None
C22_QueueTooSmallFails ==
    (dev.features_ok /\ dev.queue_max < VIRTIO_RING_SIZE /\ InitDone) =>
        /\ \E i \in 1 .. Len(dev.regs) :
              dev.regs[i] = [reg |-> "STATUS", val |-> STATUS_FIELD_FAILED]
        /\ ~bd.installed

\* the host advertised the read-only feature
HostReadOnly == HasFlag(dev.host_features, VIRTIO_FEATURE_RO)

\* C23: on a device whose host advertised the read-only feature, a write call
\* returns having changed nothing: no request record is allocated, no
\* descriptor written, the descriptor index, the available ring and the ready
\* flags stay as they were and the device is not notified; no write is ever
\* submitted, while a read is never rejected
C23_ReadOnlyWriteIsNoOp ==
    /\ [](bd.installed => (bd.read_only <=> HostReadOnly))
    /\ [](HostReadOnly => \A i \in 1 .. Len(reqlog) : ~reqlog[i].write)
    /\ [](\A i \in 1 .. Len(rets) :
             /\ rets[i].rejected => rets[i].write
             /\ (bd.installed /\ HostReadOnly /\ rets[i].write) => rets[i].rejected)
    /\ [][(bd.installed /\ HostReadOnly /\ pc.step = "idle" /\ CallReturns)
            => /\ rets'[Len(rets')].write
               /\ UNCHANGED <<allocVars, queueVars, dev, irq, pc, disk, bufs,
                              reqlog, usedlog, freelog>>]_vars

\* on the read-only device a write was rejected and then a read delivered
C23_Witness ==
    /\ HostReadOnly
    /\ Len(rets) = 2
    /\ rets[1].rejected /\ rets[1].write
    /\ ~rets[2].write /\ ~rets[2].rejected /\ ~rets[2].timedOut
    /\ reqlog[1].delivered

-----------------------------------------------------------------------------
(* Block driver properties.                                                *)

\* request k (in submission order) has been published to the available ring
Published(k) == k <= avail.idx
\* the used-ring entry of request k has been drained by use_queue
Drained(k) == \E i \in 1 .. bd.ack_used_idx : usedlog[i] = k
\* the calls 1 .. j all returned with their ready flag seen true
AllInBudget(j) == \A m \in 1 .. j : ~rets[m].timedOut /\ ~rets[m].rejected

\* C6: for every submitted request, the ready flag of the slot it was
\* published in is false from its publication until the interrupt handler
\* drains the used-ring entry of that same request.
C6_ReadyFalseUntilDrained ==
    \A k \in 1 .. Len(reqlog) :
        (Published(k) /\ ~Drained(k)) => reqlog[k].slot \in bd.notReady

\* C7: a block read/write call polls at most WAIT_FOR_READY times and then
\* returns, whether or not the completion interrupt has fired: with the
\* budget used up the loop is left although the ready flag is still false,
\* and the call returns like any other call, with no error value.
C7_BoundedSpin ==
    /\ [](pc.step = "spin" =>
            /\ pc.counter <= WAIT_FOR_READY
            /\ pc.counter = WAIT_FOR_READY => ~SpinAgain(bd, pc.slot, pc.counter))
    /\ [](\A i \in 1 .. Len(rets) : rets[i].timedOut => ~rets[i].rejected)
    /\ (pc.step # "idle") ~> (pc.step = "idle")

\* a call has returned on an exhausted budget: its ready flag was still false
\* and the used-ring entry of its request is not drained
C7_Witness ==
    /\ pc.step = "idle"
    /\ \E i \in 1 .. Len(rets) :
          /\ rets[i].timedOut
          /\ ~Drained(rets[i].k)
          /\ reqlog[rets[i].k].slot \in bd.notReady

\* C8: a call of the interrupt handler processes every used-ring entry
\* published since the previous drain, once each and in ring order; on return
\* the acknowledged index equals the device's used index, the ready flag of
\* each processed entry's request slot is true and its request record is freed.
C8_DrainComplete ==
    [][Interrupt =>
        /\ bd'.ack_used_idx = used'.idx
        /\ Len(freelog') = used'.idx
        /\ \A i \in Len(freelog) + 1 .. Len(freelog') :
              /\ freelog'[i].pos = i - 1
              /\ reqlog[usedlog[i]].slot \notin bd'.notReady
              /\ freelog'[i].ptr = reqlog[usedlog[i]].req
              /\ freelog'[i].took]_vars

\* the slots of the requests behind the used-ring entries a .. b
SlotsOf(a, b) == {reqlog[usedlog[i]].slot : i \in a .. b}

\* C24: whatever the order in which the device completes the requests in
\* flight, a drain marks ready the slots of exactly the requests its used-ring
\* entries name by descriptor id, and frees the records of those requests
C24_CompletionById ==
    [][Interrupt =>
        /\ bd'.notReady = bd.notReady \ SlotsOf(Len(freelog) + 1, Len(freelog'))
        /\ \A i \in Len(freelog) + 1 .. Len(freelog') :
              /\ freelog'[i].id = reqlog[usedlog[i]].head
              /\ freelog'[i].ptr = reqlog[usedlog[i]].req]_vars

\* the requests published to the available ring and not yet drained
InFlight == {k \in 1 .. Len(reqlog) : Published(k) /\ ~Drained(k)}

\* C25: at every moment at most one request is in flight
C25_OneInFlight == Cardinality(InFlight) <= 1

\* chunk `at` is a taken chunk of the list the allocator walks
TakenChunk(m, at) ==
    \E i \in 1 .. Len(Chunks(m)) : Chunks(m)[i] = at /\ is_taken(Load(m, at))

\* the chunk list is well-formed: the chunks tile the pool, and the callers'
\* buffers and every request record not yet drained are taken chunks of it
WellFormed ==
    /\ SumSizes(ChunkList(mem)) = PoolSize
    /\ \A a \in live : TakenChunk(mem, a.ptr - HeaderSize)
    /\ \A k \in 1 .. Len(reqlog) :
          ~Drained(k) => TakenChunk(mem, reqlog[k].req - HeaderSize)

\* C26: the interrupt handler runs only while the main line is outside the
\* allocator and outside the submit steps of a driver call (idle or polling
\* its ready flag), and the byte-chunk list is well-formed in every state
C26_HandlerNeverInsideAlloc ==
    /\ [][Interrupt => pc.step \in {"idle", "spin"}]_vars
    /\ []WellFormed

\* C9: on a writable device with every completion inside the spin budget,
\* write(buf, len, O) followed by read(buf2, len, O) leaves buf2 equal to buf.
C9_WriteThenRead ==
    \A i \in 1 .. Len(rets) - 1 :
        (/\ ~bd.read_only
         /\ AllInBudget(i + 1)
         /\ rets[i].write /\ ~rets[i + 1].write
         /\ rets[i].offset = rets[i + 1].offset
         /\ rets[i].size = rets[i + 1].size)
        => rets[i + 1].data = rets[i].data

\* a write of buffer A and then a read of the same offset into buffer B, both
\* completed inside the budget
C9_Witness ==
    \E i \in 1 .. Len(rets) - 1 :
        /\ ~bd.read_only
        /\ AllInBudget(i + 1)
        /\ rets[i].write /\ ~rets[i + 1].write
        /\ rets[i].offset = rets[i + 1].offset
        /\ rets[i].buf = BufA /\ rets[i + 1].buf = BufB
        /\ Drained(rets[i].k) /\ Drained(rets[i + 1].k)
        /\ bufs[BufB] = bufs[BufA]


\* C5: every request record is freed exactly once, and only by the interrupt
\* handler's drain of the used-ring entry of that same request: each
\* free_bytes call of use_queue is handed the record of the request whose
\* entry is being drained and finds it allocated, and a record whose entry
\* has not been drained is still allocated.
C5_FreedOnceAtDrain ==
    /\ \A i \in 1 .. Len(freelog) :
          /\ freelog[i].ptr = reqlog[usedlog[i]].req
          /\ freelog[i].took
    /\ \A k \in 1 .. Len(reqlog) :
          ~Drained(k) => is_taken(Load(mem, reqlog[k].req - HeaderSize))

\* the three descriptor slots of the chain that starts at head
ChainSlots(head) == {(head + i) % VIRTIO_RING_SIZE : i \in 0 .. 2}

\* C31: every descriptor a submission writes goes into a free slot: never
\* into a slot of the chain of a request that has been published and whose
\* used-ring entry has not been drained
C31_WritesFreeSlotOnly ==
    [][bd'.idx # bd.idx =>
          \A k \in InFlight : bd'.idx \notin ChainSlots(reqlog[k].head)]_vars

\* the chain of request k as the queue and the memory hold it: three
\* descriptors in consecutive slots from the head on, the header with the
\* request's type and sector, the caller's buffer, the status byte
ChainWritten(k) ==
    LET r == reqlog[k]
        d1 == DescAt(desc, r.head)
        d2 == DescAt(desc, (r.head + 1) % VIRTIO_RING_SIZE)
        d3 == DescAt(desc, (r.head + 2) % VIRTIO_RING_SIZE)
    IN  /\ d1.addr = r.req
        /\ d1.flags = VIRTIO_DESC_FLAG_NEXT
        /\ d1.next = (r.head + 1) % VIRTIO_RING_SIZE
        /\ Load(mem, d1.addr).size =
              (IF r.write THEN VIRTIO_BLK_TYPE_OUT ELSE VIRTIO_BLK_TYPE_IN)
        /\ Load(mem, d1.addr + OffSector).size = r.sector
        /\ d2.addr = r.buf
        /\ HasFlag(d2.flags, VIRTIO_DESC_FLAG_NEXT)
        /\ HasFlag(d2.flags, VIRTIO_DESC_FLAG_WRITE) = ~r.write
        /\ d2.next = (r.head + 2) % VIRTIO_RING_SIZE
        /\ d3.addr = r.req + OffStatus
        /\ d3.flags = VIRTIO_DESC_FLAG_WRITE

DrainedNow == {usedlog[i] : i \in Len(freelog) + 1 .. Len(freelog')}

\* request k's ready flag has been cleared by block_notify
Cleared(k) == k < Len(reqlog) \/ pc.step \notin {"data", "status", "publish", "clear"}

\* C33: a submission publishes the head index, then clears the slot's ready
\* flag, then writes the doorbell; no completion is drained before the ready
\* flag of its request was cleared, and once a request's completion has been
\* drained its flag is not false
C33_NoLostCompletion ==
    /\ [][(Publish => pc'.step = "clear") /\ (Clear => pc'.step = "doorbell")
           /\ (Doorbell => pc.step = "doorbell")]_vars
    /\ [][Interrupt => \A k \in DrainedNow : Cleared(k)]_vars
    /\ [](\A k \in 1 .. Len(reqlog) :
             (Drained(k) /\ Cleared(k)) => reqlog[k].slot \notin bd.notReady)

\* C10: consecutive reads of the same offset, more of them than the ring has
\* slots, each deliver the device's data for that sector into the caller's
\* buffer when every completion interrupt arrives inside the spin budget.
C10_StressReadsDeliver ==
    \A i \in 1 .. Len(rets) :
        /\ reqlog[rets[i].k].delivered
        /\ rets[i].data = DiskRead(disk, rets[i].offset \div SectorSize,
                                   rets[i].size \div SectorSize)

\* more reads have returned than the ring has slots: the descriptor index has
\* wrapped and the available and used positions have wrapped
C10_Witness ==
    /\ Len(rets) > VIRTIO_RING_SIZE
    /\ avail.idx > VIRTIO_RING_SIZE
    /\ bd.ack_used_idx > VIRTIO_RING_SIZE
    /\ bd.idx < 3 * Len(rets)
    /\ reqlog[Len(rets)].delivered
    /\ bufs[BufB] = DiskRead(disk, 2, 1)

-----------------------------------------------------------------------------
(* The buffers of the filesystem's calls on the byte pool (buffer.rs).     *)

\* k times Buffer::new(sz), one after the other
RECURSIVE BuffersNew(_, _, _)
BuffersNew(m, k, sz) ==
    IF k = 0 THEN [mem |-> m, ptrs |-> <<>>, hang |-> FALSE]
    ELSE LET r == Kmalloc(m, sz)
         IN  IF r.hang THEN [mem |-> m, ptrs |-> <<>>, hang |-> TRUE]
             ELSE LET rest == BuffersNew(r.mem, k - 1, sz)
                  IN  [mem |-> rest.mem, ptrs |-> <<r.ptr>> \o rest.ptrs,
                       hang |-> rest.hang]

\* Drop for Buffer that frees nothing
BufferDropNone(m, ptr) == m

\* Drop for Buffer
BufferDrop(m, ptr) == IF ptr # NullPtr THEN Kfree(m, ptr) ELSE m

\* the buffers ptrs dropped in order
RECURSIVE BuffersDrop(_, _)
BuffersDrop(m, ptrs) ==
    IF ptrs = <<>> THEN m ELSE BuffersDrop(BufferDrop(m, Head(ptrs)), Tail(ptrs))

\* the buffer size of get_dirents: (size + BLOCK_SIZE - 1) & !BLOCK_SIZE
DirentsBufSize(size) ==
    LET x == size + BLOCK_SIZE - 1
    IN  IF HasFlag(x, BLOCK_SIZE) THEN x - BLOCK_SIZE ELSE x

\* the entries get_dirents reports: those of the first block
DirentsNum(size) ==
    (IF BLOCK_SIZE > size THEN size ELSE BLOCK_SIZE) \div DirEntrySize

\* the four buffers ReadState::new allocates
ReadStateBuffers == 4

\* the headers of the taken chunks of the pool
TakenSet(m) == {Chunks(m)[i] : i \in {j \in 1 .. Len(Chunks(m)) : is_taken(Load(m, Chunks(m)[j]))}}

ScratchFrame ==
    /\ UNCHANGED <<pages, live, runs, lastOp, ops>>
    /\ UNCHANGED blockVars
    /\ UNCHANGED <<fsimg, cache, fsret>>

\* MinixFileSystem::read up to its zone walks: ReadState::new
ReadEnter ==
    /\ fsc.step = "idle"
    /\ fsc.calls < MaxScratchCalls
    /\ LET r == BuffersNew(mem, ReadStateBuffers, BLOCK_SIZE)
       IN  /\ ~r.hang
           /\ mem' = r.mem
           /\ fsc' = [fsc EXCEPT !.step = "read", !.held = r.ptrs, !.nreads = 0,
                                 !.calls = @ + 1]
    /\ ScratchFrame

\* read returns: the ReadState and its buffers are dropped
ReadReturn ==
    /\ fsc.step = "read"
    /\ mem' = BuffersDrop(mem, fsc.held)
    /\ fsc' = [fsc EXCEPT !.step = "idle", !.held = <<>>]
    /\ ScratchFrame

\* SuperBlock::get_inode up to its block::read: Buffer::default
GetInodeEnter ==
    /\ fsc.step = "idle"
    /\ fsc.calls < MaxScratchCalls
    /\ LET r == BuffersNew(mem, 1, BLOCK_SIZE)
       IN  /\ ~r.hang
           /\ mem' = r.mem
           /\ fsc' = [fsc EXCEPT !.step = "get_inode", !.held = r.ptrs, !.nreads = 0,
                                 !.calls = @ + 1]
    /\ ScratchFrame

\* get_inode returns: inode_buffer is dropped
GetInodeReturn ==
    /\ fsc.step = "get_inode"
    /\ mem' = BuffersDrop(mem, fsc.held)
    /\ fsc' = [fsc EXCEPT !.step = "idle", !.held = <<>>]
    /\ ScratchFrame

\* block::read of a filesystem call: block_header allocates the request record
ScratchBlockRead ==
    /\ fsc.step \in {"read", "get_inode", "dirents", "loop_inode"}
    /\ fsc.nreads < MaxScratchReads
    /\ Cardinality(fsc.reqs) < MaxScratchPending
    /\ LET r == Kmalloc(mem, RequestSize)
       IN  /\ ~r.hang
           /\ mem' = r.mem
           /\ fsc' = [fsc EXCEPT !.nreads = @ + 1,
                                 !.reqs = IF r.ptr = NullPtr THEN @ ELSE @ \cup {r.ptr}]
    /\ ScratchFrame

\* the interrupt handler drains the entry of a request: free_bytes of its record
ScratchDrain(req) ==
    /\ req \in fsc.reqs
    /\ mem' = Kfree(mem, req)
    /\ fsc' = [fsc EXCEPT !.reqs = @ \ {req}]
    /\ ScratchFrame

\* cache_tree of the root directory up to the read of get_dirents: the buffer
\* of get_inode(ROOT_NODE) allocated and dropped, the buffer of get_dirents,
\* ReadState::new
DirentsEnter ==
    /\ fsc.step = "idle"
    /\ fsc.calls < MaxScratchCalls
    /\ ROOT_NODE \in DOMAIN fsimg.inodes
    /\ LET g == BuffersNew(mem, 1, BLOCK_SIZE)
           m1 == BuffersDrop(g.mem, g.ptrs)
           b == BuffersNew(m1, 1, DirentsBufSize(fsimg.inodes[ROOT_NODE].size))
           r == BuffersNew(b.mem, ReadStateBuffers, BLOCK_SIZE)
       IN  /\ ~g.hang /\ ~b.hang /\ ~r.hang
           /\ mem' = r.mem
           /\ fsc' = [fsc EXCEPT !.step = "dirents", !.held = r.ptrs, !.nreads = 0,
                                 !.dirents = b.ptrs[1],
                                 !.num = DirentsNum(fsimg.inodes[ROOT_NODE].size),
                                 !.i = DIR_ENTRY_START, !.calls = @ + 1]
    /\ ScratchFrame

\* get_dirents returns (dirents, num_dirents): the ReadState is dropped and
\* then buf, the buffer dirents points into
DirentsReturn ==
    /\ fsc.step = "dirents"
    /\ mem' = BufferDrop(BuffersDrop(mem, fsc.held), fsc.dirents)
    /\ fsc' = [fsc EXCEPT !.step = "loop", !.held = <<>>]
    /\ ScratchFrame

\* the loop of cache_tree reads entry i through dirents and calls get_inode
\* for it: Buffer::default
LoopGetInode ==
    /\ fsc.step = "loop"
    /\ fsc.i < fsc.num
    /\ LET r == BuffersNew(mem, 1, BLOCK_SIZE)
       IN  /\ ~r.hang
           /\ mem' = r.mem
           /\ fsc' = [fsc EXCEPT !.step = "loop_inode", !.held = r.ptrs, !.nreads = 0]
    /\ ScratchFrame

\* get_inode returns into the loop, which goes on to the next entry
LoopNext ==
    /\ fsc.step = "loop_inode"
    /\ mem' = BuffersDrop(mem, fsc.held)
    /\ fsc' = [fsc EXCEPT !.step = "loop", !.held = <<>>, !.i = @ + 1]
    /\ ScratchFrame

\* the loop has read its last entry
LoopEnd ==
    /\ fsc.step = "loop"
    /\ fsc.i >= fsc.num
    /\ fsc' = [fsc EXCEPT !.step = "idle", !.dirents = 0, !.num = 0, !.i = 0]
    /\ UNCHANGED mem
    /\ ScratchFrame

\* the callers' allocations, and then the filesystem's calls on the pool they
\* leave
ScratchNext ==
    \/ \E sz \in AllocSizes : fsc.calls = 0 /\ ops < MaxScratchOps /\ AllocBytes(sz)
    \/ \E a \in live : fsc.calls = 0 /\ ops < MaxScratchOps /\ FreeBytes(a)
    \/ ReadEnter
    \/ ReadReturn
    \/ GetInodeEnter
    \/ GetInodeReturn
    \/ ScratchBlockRead
    \/ \E req \in fsc.reqs : ScratchDrain(req)
    \/ DirentsEnter
    \/ DirentsReturn
    \/ LoopGetInode
    \/ LoopNext
    \/ LoopEnd

ScratchInit ==
    /\ AllocInit
    /\ \E img \in {ImgHello, ImgNested} : FsIdle(img)

SpecScratch == ScratchInit /\ [][ScratchNext]_vars

-----------------------------------------------------------------------------
(* The filesystem's calls as actions.                                      *)

FsInitState ==
    /\ AllocInit
    /\ \E img \in Images : FsIdle(img)

\* MinixFileSystem::init
FsInit(uaf, checked) ==
    /\ ~cache.mounted
    /\ ~cache.panic
    /\ LET r == init_inode_cache(fsimg, fsimg.sb, uaf, checked)
       IN  cache' = [mounted |-> ~r.panic, map |-> IF r.panic THEN {} ELSE r.map,
                     wild |-> r.wild, sb |-> fsimg.sb, gets |-> r.gets,
                     panic |-> r.panic]
    /\ UNCHANGED <<allocVars, blockVars, fsimg, fsret, fsc>>

\* MinixFileSystem::read(get_inode(n), buffer, size, offset)
FsRead(n, size, offset) ==
    /\ cache.mounted
    /\ n \in DOMAIN fsimg.inodes
    /\ ~is_directory(fsimg.inodes[n])
    /\ offset < fsimg.inodes[n].size
    /\ LET r == Read(fsimg, fsimg.inodes[n], size, offset)
       IN  fsret' = [n |-> n, path |-> "", size |-> size, offset |-> offset,
                     ret |-> r.ret, segs |-> r.rs.segs, reads |-> r.rs.reads,
                     get |-> NoGet, rs |-> r.rs]
    /\ UNCHANGED <<allocVars, blockVars, fsimg, cache, fsc>>

\* the paths the callers ask read_file for: the files of the image
FilePaths(img) == {x.path : x \in FlatTree(img, "/", ROOT_NODE, MaxDepth)}

\* a path the image does not hold
MissingPath == "/nope"

\* a lookup that never finds the path
CacheGetNone(map, path) == {}

\* MFS_INODE_CACHE.get(file_name): the entries under that key, one or none
CacheGet(map, path) == {x \in map : x.path = path}

\* MinixFileSystem::read_file(path, buffer, size, offset): the lookup in the
\* path cache, then read, or the log line and 0
FsReadFile(path, size, offset) ==
    /\ cache.mounted
    /\ LET hit == CacheGet(cache.map, path)
       IN  IF hit = {}
           THEN fsret' = [n |-> 0, path |-> path, size |-> size, offset |-> offset,
                          ret |-> 0, segs |-> <<>>, reads |-> <<>>, get |-> NoGet, rs |-> NoRead]
           ELSE LET r == Read(fsimg, (CHOOSE x \in hit : TRUE).node, size, offset)
                IN  fsret' = [n |-> 0, path |-> path, size |-> size, offset |-> offset,
                              ret |-> r.ret, segs |-> r.rs.segs, reads |-> r.rs.reads,
                     get |-> NoGet, rs |-> r.rs]
    /\ UNCHANGED <<allocVars, blockVars, fsimg, cache, fsc>>

FsNext ==
    \/ \E uaf \in BOOLEAN, checked \in BOOLEAN : FsInit(uaf, checked)
    \/ \E n \in 1 .. MaxInode, size \in ReadSizes, offset \in ReadOffsets :
          FsRead(n, size, offset)
    \/ \E path \in FilePaths(fsimg) \cup {MissingPath}, size \in ReadSizes,
          offset \in {0, 5} :
          FsReadFile(path, size, offset)

SpecFs == FsInitState /\ [][FsNext]_vars

\* MinixFileSystem::get_inode(n) by a caller, before or after init
FsGetInode(n, checked) ==
    /\ ~cache.panic
    /\ LET g == get_inode(fsimg, cache.sb, n, checked)
       IN  /\ fsret' = [n |-> 0, path |-> "", size |-> 0, offset |-> 0, ret |-> 0,
                        segs |-> <<>>, reads |-> <<>>, get |-> g, rs |-> NoRead]
           /\ cache' = [cache EXCEPT !.panic = (g.fate = "panic")]
    /\ UNCHANGED <<allocVars, blockVars, fsimg, fsc>>

MountInit ==
    /\ AllocInit
    /\ \E img \in MountImages : FsIdle(img)

\* mounting a disk that may be no Minix 3 filesystem or hold deleted entries
MountNext ==
    \/ \E uaf \in BOOLEAN, checked \in BOOLEAN : FsInit(uaf, checked)
    \/ \E n \in 0 .. 2 * InodesPerBlock + 1, checked \in BOOLEAN : FsGetInode(n, checked)
    \/ \E n \in 1 .. MaxInode, size \in ReadSizes, offset \in ReadOffsets :
          FsRead(n, size, offset)

SpecMount == MountInit /\ [][MountNext]_vars

-----------------------------------------------------------------------------
(* Filesystem properties.                                                  *)

\* C1: read(inode, buf, size, offset) with offset inside the file fills buf
\* with exactly the bytes the flat file holds from offset on, and returns
\* their number.
C1_ReadMatchesFlatFile ==
    fsret.n # 0 =>
        LET inode == fsimg.inodes[fsret.n]
            cnt == FlatCount(inode, fsret.size, fsret.offset)
        IN  /\ fsret.ret = cnt
            /\ \A q \in 0 .. cnt - 1 :
                  BufByte(fsret.segs, q) = FlatByte(fsimg, inode, fsret.offset + q)

\* C2: after filesystem init the path cache holds every file that is no
\* directory and is reachable from the root, under its absolute path and
\* mapped to its inode record, and holds no directory.
C2_CacheHoldsEveryFile ==
    cache.mounted =>
        /\ ~cache.wild
        /\ cache.map = FlatTree(fsimg, "/", ROOT_NODE, MaxDepth)
        /\ \A x \in cache.map : ~is_directory(x.node)

\* a regular file of less than one block that lies in its first direct zone
SmallDirectFile(inode) ==
    /\ ~is_directory(inode)
    /\ inode.size > 0
    /\ inode.size < BLOCK_SIZE
    /\ inode.zones[1] # 0

\* the inode a finished read or read_file call was about
CalledInode ==
    IF fsret.n # 0 THEN fsimg.inodes[fsret.n]
    ELSE (CHOOSE x \in FlatTree(fsimg, "/", ROOT_NODE, MaxDepth) : x.path = fsret.path).node

\* C11: after filesystem init, read_file(path, buf, size, 0) and
\* read(get_inode(n), buf, size, 0) of a regular file that is smaller than one
\* block and lies in one direct zone, with size larger than the file, return
\* the file size, and the first file-size bytes of buf are the file's content.
C11_SmallFileRead ==
    (cache.mounted /\ (fsret.n # 0 \/ fsret.path \in FilePaths(fsimg)) /\ fsret.offset = 0) =>
        ((SmallDirectFile(CalledInode) /\ fsret.size > CalledInode.size) =>
            /\ fsret.ret = CalledInode.size
            /\ \A q \in 0 .. CalledInode.size - 1 :
                  BufByte(fsret.segs, q) = <<CalledInode.zones[1], q>>)

\* the bytes of the file from offset on: inode.size - offset, or none
BytesFrom(inode, offset) == IF offset >= inode.size THEN 0 ELSE inode.size - offset

\* C27: read(inode, buf, size, offset) reports at most inode.size - offset
\* bytes, and every copy into buf ends inside the first inode.size - offset
\* bytes of it
C27_ReadClampedToFile ==
    fsret.n # 0 =>
        /\ fsret.ret <= BytesFrom(fsimg.inodes[fsret.n], fsret.offset)
        /\ \A i \in 1 .. Len(fsret.segs) :
              fsret.segs[i].dst + fsret.segs[i].len
                 <= BytesFrom(fsimg.inodes[fsret.n], fsret.offset)

\* C28: read_file of a path that is not in the path cache returns 0, reads no
\* block and copies nothing into the buffer; of a cached path it returns what
\* read returns for the cached inode with the same size and offset, and
\* leaves the same bytes in the buffer
C28_ReadFileMissOrDelegate ==
    fsret.path # "" =>
        IF \E x \in cache.map : x.path = fsret.path
        THEN \A x \in cache.map :
                x.path = fsret.path =>
                    /\ fsret.ret = Read(fsimg, x.node, fsret.size, fsret.offset).ret
                    /\ fsret.segs = Read(fsimg, x.node, fsret.size, fsret.offset).rs.segs
        ELSE fsret.ret = 0 /\ fsret.segs = <<>> /\ fsret.reads = <<>>

\* read_file has returned 0 for a missing path, or bytes for a cached one
C28_WitnessMiss ==
    /\ fsret.path = MissingPath
    /\ cache.map # {}
    /\ fsret.ret = 0

\* every get_inode call so far: those of init's walk and the caller's last
GetCalls ==
    {cache.gets[i] : i \in 1 .. Len(cache.gets)}
        \cup (IF fsret.get.fate = "idle" THEN {} ELSE {fsret.get})

C29_WitnessCaller ==
    /\ fsimg.sb.magic # MAGIC
    /\ fsret.get.n = 3
    /\ fsret.get.fate = "none"

\* C30: every get_inode call on a Minix 3 disk, from the directory walk or
\* from a caller, reads the block at (2 + imap_blocks + zmap_blocks) *
\* block_size + ((n - 1) / 16) * block_size and takes the record at index
\* (n - 1) mod 16, with no arithmetic underflow or wraparound
C30_InodeBlockAndIndex ==
    \A g \in GetCalls :
        g.fate # "none" =>
            /\ g.fate = "some"
            /\ ~g.wrapped
            /\ g.read
            /\ g.offset = (2 + cache.sb.imap_blocks + cache.sb.zmap_blocks) * BLOCK_SIZE
                              + ((g.n - 1) \div 16) * BLOCK_SIZE
            /\ g.index = (g.n - 1) % 16

\* the same for the inode numbers from 1 on
C30_FromOne ==
    \A g \in GetCalls :
        (g.fate # "none" /\ g.n >= 1) =>
            /\ g.fate = "some"
            /\ ~g.wrapped
            /\ g.read
            /\ g.offset = (2 + cache.sb.imap_blocks + cache.sb.zmap_blocks) * BLOCK_SIZE
                              + ((g.n - 1) \div 16) * BLOCK_SIZE
            /\ g.index = (g.n - 1) % 16

\* a read or a read_file that found its path has returned
ReadDone == fsret.n # 0 \/ (fsret.path # "" /\ fsret.rs.walk # 0)

RECURSIVE SumLen(_, _)
\* the bytes the first i memcpy calls of segs wrote
SumLen(segs, i) == IF i = 0 THEN 0 ELSE segs[i].len + SumLen(segs, i - 1)

\* min(remaining_bytes, block_size - intra_block_offset)
ZoneShare(left, off) == IF BLOCK_SIZE - off > left THEN left ELSE BLOCK_SIZE - off

\* C34: the value read returns is the number of bytes written into the
\* buffer: every matched zone contributes min(remaining_bytes, block_size -
\* intra_block_offset) bytes, all of them copied to the buffer at position
\* bytes_read, and the intra-block offset is zero behind the first matched
\* zone
C34_ReturnIsBytesWritten ==
    ReadDone =>
        LET segs == fsret.rs.segs
            data == SelectSeq(fsret.rs.trail, LAMBDA t : t.data)
        IN  /\ fsret.ret = SumLen(segs, Len(segs))
            /\ \A i \in 1 .. Len(segs) :
                  /\ segs[i].len = ZoneShare(data[i].left, segs[i].off)
                  /\ segs[i].dst = SumLen(segs, i - 1)
                  /\ i > 1 => segs[i].off = 0

\* C35: a read reads no block for a zero zone pointer, copies no bytes for
\* one and does not count one as a block seen, whether the pointer is a
\* direct zone entry, the root of an indirect tree or an index block entry
C35_ZeroPointersSkipped ==
    ReadDone =>
        /\ \A i \in 1 .. Len(fsret.rs.trail) : fsret.rs.trail[i].zone # 0
        /\ \A i \in 1 .. Len(fsret.rs.segs) : fsret.rs.segs[i].zone # 0
        /\ \A i \in 1 .. Len(fsret.rs.counted) : fsret.rs.counted[i] # 0
        /\ fsret.rs.blocks_seen = Len(fsret.rs.counted)

\* the zero pointers of an inode: among its direct entries, among its three
\* roots, and among the listed entries of its index blocks
ZeroDirect(inode) == \E i \in 1 .. DIRECT_ZONES - 1 : inode.zones[i] = 0 /\ inode.zones[i + 1] # 0
ZeroEntry(img, zone) == \E k \in 1 .. Len(PtrEntries(img, zone)) : PtrEntries(img, zone)[k].z = 0

\* a read went across a hole among the direct zones and copied from the zone
\* behind it
C35_Witness ==
    /\ fsret.n # 0
    /\ ZeroDirect(fsimg.inodes[fsret.n])
    /\ Len(fsret.rs.segs) = 2
    /\ fsret.rs.blocks_seen = 1

\* a read went on over the zero entries of the index blocks of a
\* double-indirect tree after it had copied the data block
C35_WitnessIndex ==
    /\ fsret.n # 0
    /\ fsimg.inodes[fsret.n].zones[DOUBLE_INDIRECT_ZONE + 1] # 0
    /\ ZeroEntry(fsimg, fsimg.inodes[fsret.n].zones[DOUBLE_INDIRECT_ZONE + 1])
    /\ Len(fsret.rs.segs) = 1
    /\ fsret.rs.bytes_left > 0
    /\ fsret.rs.blocks_seen = 1

\* C36: read walks the direct zones, then the single-, the double- and the
\* triple-indirect zones, in that order, and issues no block read once
\* bytes_left is 0, for every size, 0 included; the zones in front of the
\* starting block are counted and their data blocks are not read
C36_OrderedAndShortCircuit ==
    ReadDone =>
        LET trail == fsret.rs.trail
        IN  /\ \A i \in 1 .. Len(trail) : \A j \in i .. Len(trail) :
                  trail[i].walk <= trail[j].walk
            /\ \A i \in 1 .. Len(trail) : trail[i].left > 0
            /\ \A i \in 1 .. Len(fsret.rs.counted) :
                  i <= fsret.rs.offset_block =>
                      \A j \in 1 .. Len(trail) :
                          trail[j].data => trail[j].zone # fsret.rs.counted[i]

\* the same for the sizes above 0
C36_PositiveSizes == fsret.size > 0 => C36_OrderedAndShortCircuit

\* the chunk behind the pointer ptr: its header and its end
ChunkOf(m, ptr) == [lo |-> ptr - HeaderSize,
                    hi |-> ptr - HeaderSize + get_size(Load(m, ptr - HeaderSize))]

\* C37: while the loop of cache_tree has entries to read, the chunk that
\* get_dirents returned a pointer into is a taken chunk of the pool and no
\* buffer allocated since lies in it
C37_DirentsStayAllocated ==
    (fsc.step \in {"loop", "loop_inode"} /\ fsc.i < fsc.num) =>
        /\ TakenChunk(mem, fsc.dirents - HeaderSize)
        /\ \A k \in 1 .. Len(fsc.held) : fsc.held[k] # fsc.dirents

\* the chunks of the callers' allocations and of the request records not
\* drained yet
OwnedChunks == {a.ptr - HeaderSize : a \in live} \cup {r - HeaderSize : r \in fsc.reqs}

Init == AllocStart
Next == AllocNext
Spec == Init /\ [][Next]_vars

====
